---- MODULE Spec2Model ----
(***************************************************************************)
(* Authorization decision engine of apps/api: AuthorizationService over a *)
(* SimplePolicyEngine or an RBACPolicyEngine (role store, scoped and       *)
(* time-bounded assignments, per-user permission cache), the built-in      *)
(* condition evaluators and RBACService.                                   *)
(*                                                                         *)
(* Python strings that the code splits or matches (actions, permission     *)
(* strings, reasons) are sequences of tokens; ":" and "*" are tokens of    *)
(* their own.  None is the string "None" for identifiers and attributes    *)
(* and Null (-1) for timestamps.                                           *)
(***************************************************************************)
EXTENDS Integers, Sequences, FiniteSets, TLC

VARIABLES
    engine_name,       \* settings.auth.policy_engine: "simple" or "rbac"
    now,               \* datetime.utcnow(), in seconds
    permissions,       \* table permissions: rows (resource, action)
    roles,             \* table roles: ids of the stored roles
    role_permissions,  \* association table: role id -> set of permission rows
    user_roles,        \* table user_roles: the stored assignments
    _cache,            \* RBACPolicyEngine._cache: user id -> (permissions, cached_at)
    _policy_engines,   \* AuthRegistry._policy_engines: name -> registered class
    _scope_providers,  \* AuthRegistry._scope_providers: name -> registered class
    _condition_evaluators, \* AuthRegistry._condition_evaluators: name -> registered class
    provider_name,     \* settings.auth.scope_provider: "none" or "ownership"
    multi_tenant,      \* settings.auth.multi_tenant
    request,           \* SpecAuthz: the arguments of the calls of the request served
    inflight,          \* per requesting actor: its evaluate suspended on a lookup
    solo,              \* the watched actor's cache entry and answer had it run alone
    last               \* the last call made and what it returned

vars == <<engine_name, now, permissions, roles, role_permissions, user_roles, _cache,
          _policy_engines, _scope_providers, _condition_evaluators,
          provider_name, multi_tenant, request, inflight, solo, last>>

----------------------------------------------------------------------------
(* Bounds *)

MaxTime == 2
MaxAssignments == 2
cache_ttl == 2

----------------------------------------------------------------------------
(* Values *)

None == "None"
Null == -1

\* Python values passed as a condition's expected value.
VNone == [t |-> "none", s |-> "", l |-> {}, n |-> 0]
VStr(s) == [t |-> "str", s |-> s, l |-> {}, n |-> 0]
VBool(b) == [t |-> "bool", s |-> "", l |-> {}, n |-> IF b THEN 1 ELSE 0]
VList(l) == [t |-> "list", s |-> "", l |-> l, n |-> 0]
VInt(n) == [t |-> "int", s |-> "", l |-> {}, n |-> n]

\* bool(v) of Python.
Truthy(v) ==
    CASE v.t = "none" -> FALSE
      [] v.t = "str" -> v.s # ""
      [] v.t = "bool" -> v.n # 0
      [] v.t = "list" -> v.l # {}
      [] OTHER -> v.n # 0

\* An attribute read with getattr(obj, name, None).
AttrValue(a) == IF a = None THEN VNone ELSE VStr(a)

\* A Python dict: its items in insertion order.
DictKeys(d) == [i \in 1..Len(d) |-> d[i].key]

DictHas(d, key) == \E i \in 1..Len(d) : d[i].key = key

\* d.get(key): None for a key that is not there.
DictGet(d, key) ==
    IF DictHas(d, key) THEN d[CHOOSE i \in 1..Len(d) : d[i].key = key].value ELSE None

\* Mutant: d.setdefault(key, value), the first value of a key stays.
DictSet_KeepFirst(d, key, value) ==
    IF DictHas(d, key) THEN d ELSE Append(d, [key |-> key, value |-> value])

\* d[key] = value: a key that is there keeps its place.
DictSet(d, key, value) ==
    IF DictHas(d, key)
    THEN [i \in 1..Len(d) |-> IF d[i].key = key THEN [key |-> key, value |-> value] ELSE d[i]]
    ELSE Append(d, [key |-> key, value |-> value])

----------------------------------------------------------------------------
(* Strings as token sequences *)

Str(w) == <<w>>
Perm(r, a) == <<r, ":", a>>
Star == <<"*">>

HasColon(s) == \E i \in 1..Len(s) : s[i] = ":"

FirstColon(s) == CHOOSE i \in 1..Len(s) : s[i] = ":" /\ \A j \in 1..(i-1) : s[j] # ":"

\* s.split(":", 1) and s.split(":")[0] for a string that contains ":".
BeforeColon(s) == SubSeq(s, 1, FirstColon(s) - 1)
AfterColon(s) == SubSeq(s, FirstColon(s) + 1, Len(s))

EndsWith(s, suffix) ==
    /\ Len(s) >= Len(suffix)
    /\ SubSeq(s, Len(s) - Len(suffix) + 1, Len(s)) = suffix

\* The text is a substring of the (token) string.
Contains(s, text) == \E i \in 1..Len(s) : s[i] = text

----------------------------------------------------------------------------
(* PolicyDecision *)

NoReason == <<>>

allow(reason) == [allowed |-> TRUE, reason |-> reason]
deny(reason) == [allowed |-> FALSE, reason |-> reason]

----------------------------------------------------------------------------
(* Actors and resources: the attributes the engine reads with getattr *)

\* resource=None
NoResource ==
    [present |-> FALSE, tablename |-> None, created_by_id |-> None,
     status |-> None, project_id |-> None, organization_id |-> None,
     amount |-> VNone]

\* actor=None
NoActor ==
    [present |-> FALSE, id |-> None, is_admin |-> FALSE, permissions |-> {},
     organization_id |-> None, approval_limit |-> VNone]

\* getattr(resource, f"{scope_type}_id", None)
ScopeAttr(resource, scope_type) ==
    IF scope_type = "project" THEN resource.project_id ELSE None

----------------------------------------------------------------------------
(* SimplePolicyEngine *)

IsReadOrUpdate(action) ==
    \/ EndsWith(action, <<":", "read">>)
    \/ EndsWith(action, <<":", "update">>)
    \/ action \in {Str("read"), Str("update")}

IsOwner(actor, resource) ==
    /\ resource.present
    /\ resource.created_by_id # None
    /\ actor.id # None
    /\ resource.created_by_id = actor.id

\* Mutant: the admin flag is not looked at.
SimplePolicyEngine_evaluate_NoAdmin(actor, action, resource) ==
    IF action \in actor.permissions \/ Star \in actor.permissions
    THEN allow(Str("Has permission"))
    ELSE IF HasColon(action) /\ (BeforeColon(action) \o <<":", "*">>) \in actor.permissions
    THEN allow(Str("Has wildcard permission"))
    ELSE IF IsOwner(actor, resource) /\ IsReadOrUpdate(action)
    THEN allow(Str("Resource owner"))
    ELSE IF EndsWith(action, <<":", "read">>) \/ action = Str("read")
    THEN allow(Str("Read allowed"))
    ELSE deny(<<"Permission denied", ". Admin access or specific permission required.">>)

\* Mutant: the owner of the resource may perform any action on it.
SimplePolicyEngine_evaluate_OwnerAny(actor, action, resource) ==
    IF actor.is_admin THEN allow(Str("Admin access"))
    ELSE IF action \in actor.permissions \/ Star \in actor.permissions
    THEN allow(Str("Has permission"))
    ELSE IF HasColon(action) /\ (BeforeColon(action) \o <<":", "*">>) \in actor.permissions
    THEN allow(Str("Has wildcard permission"))
    ELSE IF IsOwner(actor, resource)
    THEN allow(Str("Resource owner"))
    ELSE IF EndsWith(action, <<":", "read">>) \/ action = Str("read")
    THEN allow(Str("Read allowed"))
    ELSE deny(<<"Permission denied", ". Admin access or specific permission required.">>)

SimplePolicyEngine_evaluate(actor, action, resource) ==
    IF actor.is_admin THEN allow(Str("Admin access"))
    ELSE IF action \in actor.permissions \/ Star \in actor.permissions
    THEN allow(Str("Has permission"))
    ELSE IF HasColon(action) /\ (BeforeColon(action) \o <<":", "*">>) \in actor.permissions
    THEN allow(Str("Has wildcard permission"))
    ELSE IF IsOwner(actor, resource) /\ IsReadOrUpdate(action)
    THEN allow(Str("Resource owner"))
    ELSE IF EndsWith(action, <<":", "read">>) \/ action = Str("read")
    THEN allow(Str("Read allowed"))
    ELSE deny(<<"Permission denied", ". Admin access or specific permission required.">>)

SimplePolicyEngine_get_permissions(actor, resource) ==
    IF actor.is_admin THEN {Star}
    ELSE actor.permissions
         \cup (IF IsOwner(actor, resource)
               THEN LET resource_type == IF resource.tablename = None
                                         THEN "resource" ELSE resource.tablename
                    IN {Perm(resource_type, "read"), Perm(resource_type, "update")}
               ELSE {})
         \cup {Str("read")}

----------------------------------------------------------------------------
(* RBAC models *)

\* Permission.permission_string
permission_string(perm) == perm.resource \o <<":">> \o perm.action

\* The (resource, action) pair RBACService.get_or_create_permission looks up.
ParsePermission(permission) ==
    IF HasColon(permission)
    THEN [resource |-> BeforeColon(permission), action |-> AfterColon(permission)]
    ELSE [resource |-> permission, action |-> Star]

\* The rows of user_roles the queries of the engine and of get_user_roles select.
ValidUserRoles(user_id) ==
    {ur \in user_roles :
        /\ ur.user_id = user_id
        /\ ur.valid_from <= now
        /\ (ur.valid_until = Null \/ ur.valid_until > now)}

NoEntry == [present |-> FALSE, permissions |-> {}, cached_at |-> 0]

----------------------------------------------------------------------------
(* RBACPolicyEngine *)

\* The role applies to the resource (the loop that collects role_ids).
RoleApplies(user_role, resource) ==
    ~ ( /\ user_role.scope_type # None
        /\ resource.present
        /\ ScopeAttr(resource, user_role.scope_type) # user_role.scope_id )

\* Mutant: an entry is still served when exactly cache_ttl seconds old.
_get_user_permissions_TtlIncluded(user_id, resource) ==
    IF /\ _cache[user_id].present
       /\ now - _cache[user_id].cached_at <= cache_ttl
    THEN [permissions |-> _cache[user_id].permissions, cache |-> _cache]
    ELSE LET role_ids == {ur.role_id : ur \in {u \in ValidUserRoles(user_id) :
                                                 RoleApplies(u, resource)}}
             perms == UNION {{permission_string(p) : p \in role_permissions[r]} :
                             r \in role_ids \cap roles}
         IN IF role_ids = {}
            THEN [permissions |-> {}, cache |-> _cache]
            ELSE [permissions |-> perms,
                  cache |-> [_cache EXCEPT ![user_id] =
                      [present |-> TRUE, permissions |-> perms, cached_at |-> now]]]

\* Mutant: the empty set of a lookup that found no role is cached too.
_get_user_permissions_CachesEmpty(user_id, resource) ==
    IF /\ _cache[user_id].present
       /\ now - _cache[user_id].cached_at < cache_ttl
    THEN [permissions |-> _cache[user_id].permissions, cache |-> _cache]
    ELSE LET role_ids == {ur.role_id : ur \in {u \in ValidUserRoles(user_id) :
                                                 RoleApplies(u, resource)}}
             perms == UNION {{permission_string(p) : p \in role_permissions[r]} :
                             r \in role_ids \cap roles}
         IN [permissions |-> perms,
             cache |-> [_cache EXCEPT ![user_id] =
                 [present |-> TRUE, permissions |-> perms, cached_at |-> now]]]

\* Returns the permission set and the cache the call leaves behind.
_get_user_permissions(user_id, resource) ==
    IF /\ _cache[user_id].present
       /\ now - _cache[user_id].cached_at < cache_ttl
    THEN [permissions |-> _cache[user_id].permissions, cache |-> _cache]
    ELSE LET role_ids == {ur.role_id : ur \in {u \in ValidUserRoles(user_id) :
                                                 RoleApplies(u, resource)}}
             perms == UNION {{permission_string(p) : p \in role_permissions[r]} :
                             r \in role_ids \cap roles}
         IN IF role_ids = {}
            THEN [permissions |-> {}, cache |-> _cache]
            ELSE [permissions |-> perms,
                  cache |-> [_cache EXCEPT ![user_id] =
                      [present |-> TRUE, permissions |-> perms, cached_at |-> now]]]

\* Mutant: one key for every user.
cache_key_Shared(user_id) == "u1"

\* cache_key = f"{user_id}"
cache_key(user_id) == user_id

\* The entry is there and younger than cache_ttl.
Fresh(entry) == entry.present /\ now - entry.cached_at < cache_ttl

\* The checks of evaluate on the permission set it got.
PermissionDecision(perms, action) ==
    LET resource_type == IF HasColon(action) THEN BeforeColon(action) ELSE <<>>
    IN IF action \in perms
       THEN allow(<<"Has permission: ">> \o action)
       ELSE IF Star \in perms
       THEN allow(Str("Has wildcard permission"))
       ELSE IF resource_type # <<>> /\ (resource_type \o <<":", "*">>) \in perms
       THEN allow(<<"Has wildcard permission: ">> \o resource_type \o <<":", "*">>)
       ELSE deny(<<"Missing permission: ">> \o action)

\* Mutant: the resource wildcard "<resource_type>:*" is not looked up.
RBACPolicyEngine_evaluate_NoWildcard(actor, action, resource) ==
    IF actor.is_admin
    THEN [decision |-> allow(Str("Admin access")), permissions |-> {}, cache |-> _cache]
    ELSE IF actor.id = None
    THEN [decision |-> deny(Str("User ID not found")), permissions |-> {}, cache |-> _cache]
    ELSE LET got == _get_user_permissions(actor.id, resource)
             perms == got.permissions
             d == IF action \in perms
                  THEN allow(<<"Has permission: ">> \o action)
                  ELSE IF Star \in perms
                  THEN allow(Str("Has wildcard permission"))
                  ELSE deny(<<"Missing permission: ">> \o action)
         IN [decision |-> d, permissions |-> perms, cache |-> got.cache]

\* Returns the decision, the permission set it used and the cache left behind.
RBACPolicyEngine_evaluate(actor, action, resource) ==
    IF actor.is_admin
    THEN [decision |-> allow(Str("Admin access")), permissions |-> {}, cache |-> _cache]
    ELSE IF actor.id = None
    THEN [decision |-> deny(Str("User ID not found")), permissions |-> {}, cache |-> _cache]
    ELSE LET got == _get_user_permissions(actor.id, resource)
             perms == got.permissions
             resource_type == IF HasColon(action) THEN BeforeColon(action) ELSE <<>>
             d == IF action \in perms
                  THEN allow(<<"Has permission: ">> \o action)
                  ELSE IF Star \in perms
                  THEN allow(Str("Has wildcard permission"))
                  ELSE IF resource_type # <<>> /\ (resource_type \o <<":", "*">>) \in perms
                  THEN allow(<<"Has wildcard permission: ">> \o resource_type \o <<":", "*">>)
                  ELSE deny(<<"Missing permission: ">> \o action)
         IN [decision |-> d, permissions |-> perms, cache |-> got.cache]

RBACPolicyEngine_get_permissions(actor, resource) ==
    IF actor.is_admin THEN [permissions |-> {Star}, cache |-> _cache]
    ELSE IF actor.id = None THEN [permissions |-> {}, cache |-> _cache]
    ELSE _get_user_permissions(actor.id, resource)

----------------------------------------------------------------------------
(* PolicyEngine: dispatch on the configured engine and the default         *)
(* has_permission                                                          *)

PolicyEngine_evaluate(actor, action, resource) ==
    IF engine_name = "rbac"
    THEN RBACPolicyEngine_evaluate(actor, action, resource)
    ELSE [decision |-> SimplePolicyEngine_evaluate(actor, action, resource),
          permissions |-> {}, cache |-> _cache]

PolicyEngine_get_permissions(actor, resource) ==
    IF engine_name = "rbac"
    THEN RBACPolicyEngine_get_permissions(actor, resource)
    ELSE [permissions |-> SimplePolicyEngine_get_permissions(actor, resource),
          cache |-> _cache]

\* Mutant: any non-empty permission set is taken for a grant.
has_permission_NonEmpty(actor, permission, resource) ==
    LET got == PolicyEngine_get_permissions(actor, resource)
    IN [result |-> got.permissions # {},
        permissions |-> got.permissions, cache |-> got.cache]

has_permission(actor, permission, resource) ==
    LET got == PolicyEngine_get_permissions(actor, resource)
    IN [result |-> permission \in got.permissions \/ Star \in got.permissions,
        permissions |-> got.permissions, cache |-> got.cache]

----------------------------------------------------------------------------
(* Built-in condition evaluators: each returns (passed, reason) *)

Passed == [passed |-> TRUE, reason |-> NoReason]
Failed(reason) == [passed |-> FALSE, reason |-> reason]

MaxAmountCondition_evaluate(expected, actor, resource, context) ==
    LET amount == IF context.amount.t = "none" /\ resource.present
                  THEN resource.amount ELSE context.amount
    IN IF amount.t = "none" THEN Passed
       ELSE IF expected.t \in {"int", "bool"} /\ amount.n > expected.n
       THEN Failed(<<"Amount exceeds limit">>)
       ELSE IF /\ expected = VBool(TRUE)
               /\ actor.approval_limit.t # "none"
               /\ amount.n > actor.approval_limit.n
       THEN Failed(<<"Amount exceeds your approval limit">>)
       ELSE Passed

\* Mutant: the creator is refused only when the resource is still pending.
NotCreatorCondition_evaluate_PendingOnly(expected, actor, resource, context) ==
    IF ~Truthy(expected) THEN Passed
    ELSE IF ~resource.present THEN Passed
    ELSE IF /\ resource.created_by_id # None
            /\ actor.id # None
            /\ resource.created_by_id = actor.id
            /\ resource.status = "pending"
    THEN Failed(<<"Cannot perform this action on your own resource (segregation of duties)">>)
    ELSE Passed

NotCreatorCondition_evaluate(expected, actor, resource, context) ==
    IF ~Truthy(expected) THEN Passed
    ELSE IF ~resource.present THEN Passed
    ELSE IF /\ resource.created_by_id # None
            /\ actor.id # None
            /\ resource.created_by_id = actor.id
    THEN Failed(<<"Cannot perform this action on your own resource (segregation of duties)">>)
    ELSE Passed

\* Mutant: a resource without status passes.
StatusCondition_evaluate_MissingPasses(expected, actor, resource, context) ==
    IF ~resource.present THEN Passed
    ELSE IF resource.status = None THEN Passed
    ELSE LET current_status == AttrValue(resource.status)
         IN IF expected.t = "list"
            THEN IF current_status \notin expected.l
                 THEN Failed(<<"Resource status must be one of">>)
                 ELSE Passed
            ELSE IF current_status # expected
                 THEN Failed(<<"Resource status must be">>)
                 ELSE Passed

StatusCondition_evaluate(expected, actor, resource, context) ==
    IF ~resource.present THEN Passed
    ELSE LET current_status == AttrValue(resource.status)
         IN IF expected.t = "list"
            THEN IF current_status \notin expected.l
                 THEN Failed(<<"Resource status must be one of">>)
                 ELSE Passed
            ELSE IF current_status # expected
                 THEN Failed(<<"Resource status must be">>)
                 ELSE Passed

\* Mutant: an actor without tenant fails on a resource that has one.
SameTenantCondition_evaluate_ActorRequired(expected, actor, resource, context) ==
    IF ~Truthy(expected) THEN Passed
    ELSE IF ~resource.present THEN Passed
    ELSE IF resource.organization_id = None THEN Passed
    ELSE IF actor.organization_id # resource.organization_id
    THEN Failed(<<"Cannot access resources from another organization">>)
    ELSE Passed

SameTenantCondition_evaluate(expected, actor, resource, context) ==
    IF ~Truthy(expected) THEN Passed
    ELSE IF ~resource.present THEN Passed
    ELSE IF actor.organization_id = None \/ resource.organization_id = None THEN Passed
    ELSE IF actor.organization_id # resource.organization_id
    THEN Failed(<<"Cannot access resources from another organization">>)
    ELSE Passed

\* AuthRegistry.get_condition_evaluator(condition_type).evaluate(...) for a
\* registered condition type: the evaluate of the class registered for it.
ConditionEvaluate(condition_type, expected, actor, resource, context) ==
    LET evaluator_class == DictGet(_condition_evaluators, condition_type)
    IN CASE evaluator_class = "MaxAmountCondition" ->
               MaxAmountCondition_evaluate(expected, actor, resource, context)
         [] evaluator_class = "NotCreatorCondition" ->
               NotCreatorCondition_evaluate(expected, actor, resource, context)
         [] evaluator_class = "StatusCondition" ->
               StatusCondition_evaluate(expected, actor, resource, context)
         [] OTHER ->
               SameTenantCondition_evaluate(expected, actor, resource, context)

has_condition(condition_type) == DictHas(_condition_evaluators, condition_type)

----------------------------------------------------------------------------
(* AuthorizationService *)

\* The loop over context["conditions"], from its i-th item on: the decision
\* and the evaluators invoked, in order.
RECURSIVE EvaluateConditions(_, _, _, _, _, _)
EvaluateConditions(decision, i, actor, resource, context, evaluated) ==
    IF i > Len(context.conditions)
    THEN [decision |-> decision, evaluated |-> evaluated]
    ELSE LET condition_type == context.conditions[i].name
             expected == context.conditions[i].expected
         IN IF ~has_condition(condition_type)
            THEN EvaluateConditions(decision, i + 1, actor, resource, context, evaluated)
            ELSE LET r == ConditionEvaluate(condition_type, expected, actor,
                                            resource, context)
                 IN IF ~r.passed
                    THEN [decision |->
                              deny(IF r.reason # NoReason THEN r.reason
                                   ELSE <<"Condition '", condition_type, "' not met">>),
                          evaluated |-> Append(evaluated, condition_type)]
                    ELSE EvaluateConditions(decision, i + 1, actor, resource, context,
                                            Append(evaluated, condition_type))

\* Mutant: a key that no evaluator is registered for denies.
authorize_UnknownDenies(self, actor_arg, action, resource, context) ==
    LET actor == IF actor_arg.present THEN actor_arg ELSE self
        ev == PolicyEngine_evaluate(actor, action, resource)
    IN IF ~ev.decision.allowed
       THEN [decision |-> ev.decision, evaluated |-> <<>>, cache |-> ev.cache]
       ELSE IF \E i \in 1..Len(context.conditions) :
                   ~has_condition(context.conditions[i].name)
       THEN [decision |-> deny(<<"Unknown condition">>), evaluated |-> <<>>,
             cache |-> ev.cache]
       ELSE LET c == EvaluateConditions(ev.decision, 1, actor, resource, context, <<>>)
            IN [decision |-> c.decision, evaluated |-> c.evaluated, cache |-> ev.cache]

\* Mutant: the loop stops after the first registered condition.
authorize_FirstConditionOnly(self, actor_arg, action, resource, context) ==
    LET actor == IF actor_arg.present THEN actor_arg ELSE self
        ev == PolicyEngine_evaluate(actor, action, resource)
        first == [context EXCEPT !.conditions =
                     IF @ = <<>> THEN <<>> ELSE <<Head(@)>>]
    IN IF ~ev.decision.allowed
       THEN [decision |-> ev.decision, evaluated |-> <<>>, cache |-> ev.cache]
       ELSE LET c == EvaluateConditions(ev.decision, 1, actor, resource, first, <<>>)
            IN [decision |-> c.decision, evaluated |-> c.evaluated, cache |-> ev.cache]

\* Mutant: every registered condition is evaluated, and the first failure denies.
authorize_NoShortCircuit(self, actor_arg, action, resource, context) ==
    LET actor == IF actor_arg.present THEN actor_arg ELSE self
        ev == PolicyEngine_evaluate(actor, action, resource)
        reg == SelectSeq(context.conditions, LAMBDA c : has_condition(c.name))
        r(i) == ConditionEvaluate(reg[i].name, reg[i].expected, actor, resource, context)
        failing == {i \in 1..Len(reg) : ~r(i).passed}
        first == CHOOSE i \in failing : \A j \in failing : i <= j
    IN IF ~ev.decision.allowed
       THEN [decision |-> ev.decision, evaluated |-> <<>>, cache |-> ev.cache]
       ELSE [decision |-> IF failing = {} THEN ev.decision
                          ELSE deny(IF r(first).reason # NoReason THEN r(first).reason
                                    ELSE <<"Condition '", reg[first].name, "' not met">>),
             evaluated |-> [i \in 1..Len(reg) |-> reg[i].name],
             cache |-> ev.cache]

\* self is the actor the service is bound to.
authorize(self, actor_arg, action, resource, context) ==
    LET actor == IF actor_arg.present THEN actor_arg ELSE self
        ev == PolicyEngine_evaluate(actor, action, resource)
    IN IF ~ev.decision.allowed
       THEN [decision |-> ev.decision, evaluated |-> <<>>, cache |-> ev.cache]
       ELSE LET c == EvaluateConditions(ev.decision, 1, actor, resource, context, <<>>)
            IN [decision |-> c.decision, evaluated |-> c.evaluated, cache |-> ev.cache]

\* What a call that may raise HTTPException returns to its caller.
Returned == [raised |-> FALSE, status_code |-> 0, detail |-> NoReason]
HTTPException(status_code, detail) ==
    [raised |-> TRUE, status_code |-> status_code, detail |-> detail]

authorize_or_raise(self, actor_arg, action, resource, context) ==
    LET a == authorize(self, actor_arg, action, resource, context)
    IN [outcome |-> IF ~a.decision.allowed
                    THEN HTTPException(403, IF a.decision.reason # NoReason
                                            THEN a.decision.reason
                                            ELSE <<"Permission denied">>)
                    ELSE Returned,
        decision |-> a.decision, evaluated |-> a.evaluated, cache |-> a.cache]

\* require(action, resource, conditions, **context_kwargs): the key "conditions"
\* is set only for a non-empty conditions map.
require(self, action, resource, context) ==
    authorize_or_raise(self, self, action, resource, context)

\* Mutant: can asks the policy engine only and skips the conditions.
can_PolicyOnly(self, action, resource, context) ==
    LET ev == PolicyEngine_evaluate(self, action, resource)
    IN [result |-> ev.decision.allowed, decision |-> ev.decision,
        evaluated |-> <<>>, cache |-> ev.cache]

can(self, action, resource, context) ==
    LET a == authorize(self, self, action, resource, context)
    IN [result |-> a.decision.allowed, decision |-> a.decision,
        evaluated |-> a.evaluated, cache |-> a.cache]

----------------------------------------------------------------------------
(* AuthRegistry: the getters *)

ValueError(detail) == [raised |-> TRUE, status_code |-> 0, detail |-> detail]

\* Each getter returns an instance of the registered class, named by its class.
get_policy_engine(name) ==
    LET engine_class == DictGet(_policy_engines, name)
    IN IF engine_class = None
       THEN [outcome |-> ValueError(<<"Unknown policy engine: '", name, "'. ", "Available: ">>
                                        \o DictKeys(_policy_engines)),
             instance |-> None]
       ELSE [outcome |-> Returned, instance |-> engine_class]

get_scope_provider(name) ==
    LET provider_class == DictGet(_scope_providers, name)
    IN IF provider_class = None
       THEN [outcome |-> ValueError(<<"Unknown scope provider: '", name, "'. ", "Available: ">>
                                        \o DictKeys(_scope_providers)),
             instance |-> None]
       ELSE [outcome |-> Returned, instance |-> provider_class]

get_condition_evaluator(condition_type) ==
    LET evaluator_class == DictGet(_condition_evaluators, condition_type)
    IN IF evaluator_class = None
       THEN [outcome |-> ValueError(<<"Unknown condition type: '", condition_type, "'. ",
                                      "Available: ">> \o DictKeys(_condition_evaluators)),
             instance |-> None]
       ELSE [outcome |-> Returned, instance |-> evaluator_class]

----------------------------------------------------------------------------
(* DataScope and the scope providers *)

\* A key that the filters dict does not have.
Absent == "Absent"

\* DataScope(level, filters): filters by field name.
DataScope(level, created_by_id, organization_id) ==
    [level |-> level,
     filters |-> [created_by_id |-> created_by_id, organization_id |-> organization_id]]

NoScope == DataScope(None, Absent, Absent)

global_access == DataScope("global", Absent, Absent)

tenant(tenant_id) == DataScope("tenant", Absent, tenant_id)

NoScopeProvider_get_scope(actor) ==
    IF multi_tenant /\ actor.organization_id # None
    THEN tenant(actor.organization_id)
    ELSE global_access

\* Mutant: an admin is scoped like any other actor.
OwnershipScopeProvider_get_scope_NoAdmin(actor) ==
    DataScope("ownership", actor.id,
              IF multi_tenant /\ actor.organization_id # None
              THEN actor.organization_id ELSE Absent)

OwnershipScopeProvider_get_scope(actor) ==
    IF actor.is_admin
    THEN IF multi_tenant /\ actor.organization_id # None
         THEN tenant(actor.organization_id)
         ELSE global_access
    ELSE DataScope("ownership", actor.id,
                   IF multi_tenant /\ actor.organization_id # None
                   THEN actor.organization_id ELSE Absent)

\* get_scope of the provider that get_scope_provider() built from the settings.
ScopeProvider_get_scope(actor) ==
    IF get_scope_provider(provider_name).instance = "OwnershipScopeProvider"
    THEN OwnershipScopeProvider_get_scope(actor)
    ELSE NoScopeProvider_get_scope(actor)

----------------------------------------------------------------------------
(* The record of the last call *)

NoContext == [conditions |-> <<>>, amount |-> VNone]

NoRequest ==
    [actor |-> NoActor, action |-> <<>>, resource |-> NoResource, context |-> NoContext]

NoCall ==
    [op |-> "none", actor |-> NoActor, action |-> <<>>, resource |-> NoResource,
     context |-> NoContext, permission |-> <<>>,
     user_id |-> None, role_id |-> None, scope_type |-> None, scope_id |-> None,
     allowed |-> FALSE, reason |-> NoReason, base |-> FALSE, evaluated |-> <<>>,
     permissions |-> {}, result |-> FALSE, outcome |-> Returned,
     condition_type |-> None, expected |-> VNone, scope |-> NoScope,
     name |-> None, instance |-> None,
     perm |-> [id |-> 0, resource |-> <<>>, action |-> <<>>],
     user_role |-> [user_id |-> None, role_id |-> None, scope_type |-> None,
                    scope_id |-> None, valid_from |-> 0, valid_until |-> Null]]

Call(op, actor, action, resource, context) ==
    [NoCall EXCEPT !.op = op, !.actor = actor, !.action = action,
                   !.resource = resource, !.context = context]

Mutation(op, user_id, role_id, scope_type, scope_id, permission, result, outcome) ==
    [NoCall EXCEPT !.op = op, !.user_id = user_id, !.role_id = role_id,
                   !.scope_type = scope_type, !.scope_id = scope_id,
                   !.permission = permission, !.result = result, !.outcome = outcome]

store == <<permissions, roles, role_permissions, user_roles>>
config == <<engine_name, _policy_engines, _scope_providers, _condition_evaluators,
            provider_name, multi_tenant, request>>
flight == <<inflight, solo>>

----------------------------------------------------------------------------
(* Calls into the policy engine and the authorization service *)

Evaluate(actor, action, resource) ==
    LET ev == PolicyEngine_evaluate(actor, action, resource)
    IN /\ _cache' = ev.cache
       /\ last' = [Call("evaluate", actor, action, resource, NoContext) EXCEPT
                      !.allowed = ev.decision.allowed, !.reason = ev.decision.reason,
                      !.base = ev.decision.allowed, !.permissions = ev.permissions]
       /\ UNCHANGED <<now, store, config, flight>>

GetPermissions(actor, resource) ==
    LET got == PolicyEngine_get_permissions(actor, resource)
    IN /\ _cache' = got.cache
       /\ last' = [Call("get_permissions", actor, <<>>, resource, NoContext) EXCEPT
                      !.permissions = got.permissions]
       /\ UNCHANGED <<now, store, config, flight>>

HasPermission(actor, permission, resource) ==
    LET h == has_permission(actor, permission, resource)
    IN /\ _cache' = h.cache
       /\ last' = [Call("has_permission", actor, <<>>, resource, NoContext) EXCEPT
                      !.permission = permission, !.permissions = h.permissions,
                      !.result = h.result]
       /\ UNCHANGED <<now, store, config, flight>>

Authorize(self, actor_arg, action, resource, context) ==
    LET a == authorize(self, actor_arg, action, resource, context)
        actor == IF actor_arg.present THEN actor_arg ELSE self
    IN /\ _cache' = a.cache
       /\ last' = [Call("authorize", actor, action, resource, context) EXCEPT
                      !.allowed = a.decision.allowed, !.reason = a.decision.reason,
                      !.base = PolicyEngine_evaluate(actor, action, resource).decision.allowed,
                      !.evaluated = a.evaluated]
       /\ UNCHANGED <<now, store, config, flight>>

Require(self, action, resource, context) ==
    LET r == require(self, action, resource, context)
    IN /\ _cache' = r.cache
       /\ last' = [Call("require", self, action, resource, context) EXCEPT
                      !.allowed = r.decision.allowed, !.reason = r.decision.reason,
                      !.base = PolicyEngine_evaluate(self, action, resource).decision.allowed,
                      !.evaluated = r.evaluated, !.outcome = r.outcome]
       /\ UNCHANGED <<now, store, config, flight>>

Can(self, action, resource, context) ==
    LET c == can(self, action, resource, context)
    IN /\ _cache' = c.cache
       /\ last' = [Call("can", self, action, resource, context) EXCEPT
                      !.allowed = c.decision.allowed, !.reason = c.decision.reason,
                      !.base = PolicyEngine_evaluate(self, action, resource).decision.allowed,
                      !.evaluated = c.evaluated, !.result = c.result]
       /\ UNCHANGED <<now, store, config, flight>>

\* AuthorizationService.get_scope(action) of the service bound to self.
GetScope(self, action) ==
    /\ last' = [Call("get_scope", self, action, NoResource, NoContext) EXCEPT
                    !.scope = ScopeProvider_get_scope(self)]
    /\ UNCHANGED <<now, store, config, flight, _cache>>

\* AuthRegistry.get_condition_evaluator(condition_type).evaluate(expected, actor,
\* resource, context): the getter raises for a type that is not registered.
EvaluateCondition(condition_type, expected, actor, resource, context) ==
    LET got == get_condition_evaluator(condition_type)
        call == [Call("condition", actor, <<>>, resource, context) EXCEPT
                    !.condition_type = condition_type, !.expected = expected]
    IN /\ last' = IF got.outcome.raised
                  THEN [call EXCEPT !.outcome = got.outcome]
                  ELSE LET r == ConditionEvaluate(condition_type, expected, actor,
                                                  resource, context)
                       IN [call EXCEPT !.result = r.passed, !.reason = r.reason]
       /\ UNCHANGED <<now, store, config, flight, _cache>>

----------------------------------------------------------------------------
(* AuthRegistry: the registration decorators applied to a class, and calls  *)
(* of the getters                                                           *)

Registered(op, name, class) ==
    [NoCall EXCEPT !.op = op, !.name = name, !.instance = class]

Got(op, name, got) ==
    [NoCall EXCEPT !.op = op, !.name = name, !.instance = got.instance,
                   !.outcome = got.outcome]

policy_engine(name, engine_class) ==
    /\ _policy_engines' = DictSet(_policy_engines, name, engine_class)
    /\ last' = Registered("policy_engine", name, engine_class)
    /\ UNCHANGED <<now, store, engine_name, _scope_providers, _condition_evaluators,
                   provider_name, multi_tenant, request, flight, _cache>>

scope_provider(name, provider_class) ==
    /\ _scope_providers' = DictSet(_scope_providers, name, provider_class)
    /\ last' = Registered("scope_provider", name, provider_class)
    /\ UNCHANGED <<now, store, engine_name, _policy_engines, _condition_evaluators,
                   provider_name, multi_tenant, request, flight, _cache>>

condition(condition_type, evaluator_class) ==
    /\ _condition_evaluators' = DictSet(_condition_evaluators, condition_type,
                                        evaluator_class)
    /\ last' = Registered("condition", condition_type, evaluator_class)
    /\ UNCHANGED <<now, store, engine_name, _policy_engines, _scope_providers,
                   provider_name, multi_tenant, request, flight, _cache>>

GetPolicyEngine(name) ==
    /\ last' = Got("get_policy_engine", name, get_policy_engine(name))
    /\ UNCHANGED <<now, store, config, flight, _cache>>

GetScopeProvider(name) ==
    /\ last' = Got("get_scope_provider", name, get_scope_provider(name))
    /\ UNCHANGED <<now, store, config, flight, _cache>>

GetConditionEvaluator(condition_type) ==
    /\ last' = Got("get_condition_evaluator", condition_type,
                   get_condition_evaluator(condition_type))
    /\ UNCHANGED <<now, store, config, flight, _cache>>

----------------------------------------------------------------------------
(* authorize over the RBAC engine, step by step: the coroutine gives way at *)
(* each await of a database lookup in _get_user_permissions                 *)

Idle ==
    [pc |-> "idle", actor |-> NoActor, action |-> <<>>, resource |-> NoResource,
     context |-> NoContext, role_ids |-> {}]

\* The actor whose requests are compared with a run of its requests alone.
Watched == "u1"

NoSolo == [entry |-> NoEntry, last |-> NoCall]

\* What authorize returns once evaluate has the decision of the engine.
Finished(self, action, resource, context, decision, perms) ==
    LET c == IF decision.allowed
             THEN EvaluateConditions(decision, 1, self, resource, context, <<>>)
             ELSE [decision |-> decision, evaluated |-> <<>>]
    IN [Call("authorize", self, action, resource, context) EXCEPT
           !.allowed = c.decision.allowed, !.reason = c.decision.reason,
           !.base = decision.allowed, !.evaluated = c.evaluated,
           !.permissions = perms]

\* authorize up to the first await: the admin check, the id check and the
\* cache lookup, which answers at once on a fresh entry.
BeginAuthorize(self, action, resource, context) ==
    /\ self.id \in DOMAIN inflight
    /\ inflight[self.id].pc = "idle"
    /\ IF self.is_admin
       THEN /\ last' = Finished(self, action, resource, context,
                                allow(Str("Admin access")), {})
            /\ solo' = IF self.id = Watched THEN [solo EXCEPT !.last = last'] ELSE solo
            /\ UNCHANGED inflight
       ELSE LET entry == _cache[cache_key(self.id)]
            IN IF Fresh(entry)
               THEN /\ last' = Finished(self, action, resource, context,
                                        PermissionDecision(entry.permissions, action),
                                        entry.permissions)
                    /\ solo' = IF self.id = Watched
                               THEN [solo EXCEPT !.last =
                                        Finished(self, action, resource, context,
                                                 PermissionDecision(solo.entry.permissions,
                                                                    action),
                                                 solo.entry.permissions)]
                               ELSE solo
                    /\ UNCHANGED inflight
               ELSE /\ inflight' = [inflight EXCEPT ![self.id] =
                                       [pc |-> "user_roles", actor |-> self,
                                        action |-> action, resource |-> resource,
                                        context |-> context, role_ids |-> {}]]
                    /\ UNCHANGED <<last, solo>>
    /\ UNCHANGED <<now, store, config, _cache>>

\* The query on user_roles returns and the loop collects role_ids; with no
\* role id the empty set is returned and nothing is cached.
QueryUserRoles(user_id) ==
    LET f == inflight[user_id]
        role_ids == {ur.role_id : ur \in {u \in ValidUserRoles(user_id) :
                                             RoleApplies(u, f.resource)}}
    IN /\ f.pc = "user_roles"
       /\ IF role_ids = {}
          THEN /\ inflight' = [inflight EXCEPT ![user_id] = Idle]
               /\ last' = Finished(f.actor, f.action, f.resource, f.context,
                                   PermissionDecision({}, f.action), {})
               /\ solo' = IF user_id = Watched THEN [solo EXCEPT !.last = last'] ELSE solo
          ELSE /\ inflight' = [inflight EXCEPT ![user_id].pc = "roles",
                                               ![user_id].role_ids = role_ids]
               /\ UNCHANGED <<last, solo>>
       /\ UNCHANGED <<now, store, config, _cache>>

\* The query on roles returns: the permissions are collected and cached under
\* the key of the user, and evaluate decides.
QueryRoles(user_id) ==
    LET f == inflight[user_id]
        perms == UNION {{permission_string(p) : p \in role_permissions[r]} :
                        r \in f.role_ids \cap roles}
        entry == [present |-> TRUE, permissions |-> perms, cached_at |-> now]
    IN /\ f.pc = "roles"
       /\ _cache' = [_cache EXCEPT ![cache_key(user_id)] = entry]
       /\ inflight' = [inflight EXCEPT ![user_id] = Idle]
       /\ last' = Finished(f.actor, f.action, f.resource, f.context,
                           PermissionDecision(perms, f.action), perms)
       /\ solo' = IF user_id = Watched THEN [entry |-> entry, last |-> last'] ELSE solo
       /\ UNCHANGED <<now, store, config>>

----------------------------------------------------------------------------
(* A lookup that fails: db.execute raises inside _get_user_permissions      *)

\* The exception of the database driver, which no caller handles.
DBAPIError == [raised |-> TRUE, status_code |-> 500, detail |-> <<"DBAPIError">>]

\* evaluate and get_permissions of the RBAC engine get as far as the lookup:
\* no admin flag, an id, and no entry younger than cache_ttl.
ReachesLookup(actor) ==
    /\ engine_name = "rbac"
    /\ ~actor.is_admin
    /\ actor.id # None
    /\ ~Fresh(_cache[cache_key(actor.id)])

\* Mutant: the entry of the user is dropped when the lookup fails.
_get_user_permissions_raises_DropsEntry(user_id, exc) ==
    [outcome |-> exc, cache |-> [_cache EXCEPT ![user_id] = NoEntry]]

\* The lookup raises: the statement that writes the cache is not reached.
_get_user_permissions_raises(user_id, exc) ==
    [outcome |-> exc, cache |-> _cache]

\* A call of the engine or of the service (op) whose lookup raises: neither
\* evaluate, authorize, authorize_or_raise, require nor can has a handler, so
\* the caller gets the exception and no decision.
LookupFails(op, self, action, resource, context) ==
    LET failed == _get_user_permissions_raises(self.id, DBAPIError)
    IN /\ ReachesLookup(self)
       /\ _cache' = failed.cache
       /\ last' = [Call(op, self, action, resource, context) EXCEPT
                      !.outcome = failed.outcome]
       /\ UNCHANGED <<now, store, config, flight>>

----------------------------------------------------------------------------
(* The cache and the clock *)

\* clear_cache(user_id); user_id = None clears every entry.
ClearCache(user_id) ==
    /\ _cache' = IF user_id # None
                 THEN [_cache EXCEPT ![user_id] = NoEntry]
                 ELSE [u \in DOMAIN _cache |-> NoEntry]
    /\ last' = [NoCall EXCEPT !.op = "clear_cache", !.user_id = user_id]
    /\ UNCHANGED <<now, store, config, flight>>

\* The clock advances.
Tick ==
    /\ now < MaxTime
    /\ now' = now + 1
    /\ last' = [NoCall EXCEPT !.op = "tick"]
    /\ UNCHANGED <<store, config, flight, _cache>>

----------------------------------------------------------------------------
(* RBACService, each call with the commit of its transaction *)

\* Mutant: an assignment still counts at the instant of valid_until.
get_user_roles_UntilIncluded(user_id, include_expired) ==
    {ur \in user_roles :
        /\ ur.user_id = user_id
        /\ include_expired \/
              /\ ur.valid_from <= now
              /\ (ur.valid_until = Null \/ ur.valid_until >= now)}

get_user_roles(user_id, include_expired) ==
    {ur \in user_roles :
        /\ ur.user_id = user_id
        /\ include_expired \/
              /\ ur.valid_from <= now
              /\ (ur.valid_until = Null \/ ur.valid_until > now)}

\* RBACService.get_user_permissions: get_role gives None for a role that is gone.
get_user_permissions(user_id) ==
    UNION {{permission_string(perm) : perm \in role_permissions[user_role.role_id]} :
           user_role \in {ur \in get_user_roles(user_id, FALSE) : ur.role_id \in roles}}

GetUserPermissions(user_id) ==
    /\ last' = [NoCall EXCEPT !.op = "get_user_permissions", !.user_id = user_id,
                              !.permissions = get_user_permissions(user_id)]
    /\ UNCHANGED <<now, store, config, flight, _cache>>

\* UserRole.is_valid
UserRole_is_valid(user_role) ==
    IF user_role.valid_from > now THEN FALSE
    ELSE IF user_role.valid_until # Null /\ user_role.valid_until < now THEN FALSE
    ELSE TRUE

\* The property is_valid read on a stored assignment.
IsValid(user_role) ==
    /\ user_role \in user_roles
    /\ last' = [NoCall EXCEPT !.op = "is_valid", !.user_id = user_role.user_id,
                              !.user_role = user_role,
                              !.result = UserRole_is_valid(user_role)]
    /\ UNCHANGED <<now, store, config, flight, _cache>>

IntegrityError == [raised |-> TRUE, status_code |-> 500, detail |-> <<"IntegrityError">>]

\* The unique constraint uq_user_role_scope: rows with a NULL column never conflict.
ViolatesUnique(user_id, role_id, scope_type, scope_id) ==
    /\ scope_type # None
    /\ scope_id # None
    /\ \E ur \in user_roles :
          /\ ur.user_id = user_id /\ ur.role_id = role_id
          /\ ur.scope_type = scope_type /\ ur.scope_id = scope_id

AssignRole(user_id, role_id, scope_type, scope_id, valid_until) ==
    /\ Cardinality(user_roles) < MaxAssignments
    /\ IF role_id \notin roles \/ ViolatesUnique(user_id, role_id, scope_type, scope_id)
       THEN /\ user_roles' = user_roles
            /\ last' = Mutation("assign_role", user_id, role_id, scope_type, scope_id,
                                <<>>, FALSE, IntegrityError)
       ELSE /\ user_roles' = user_roles \cup
                   {[user_id |-> user_id, role_id |-> role_id,
                     scope_type |-> scope_type, scope_id |-> scope_id,
                     valid_from |-> now, valid_until |-> valid_until]}
            /\ last' = Mutation("assign_role", user_id, role_id, scope_type, scope_id,
                                <<>>, TRUE, Returned)
    /\ UNCHANGED <<now, permissions, roles, role_permissions, config, flight, _cache>>

RevokeRole(user_id, role_id, scope_type, scope_id) ==
    LET deleted == {ur \in user_roles :
                       /\ ur.user_id = user_id
                       /\ ur.role_id = role_id
                       /\ (scope_type # None => ur.scope_type = scope_type)
                       /\ (scope_id # None => ur.scope_id = scope_id)}
    IN /\ user_roles' = user_roles \ deleted
       /\ last' = Mutation("revoke_role", user_id, role_id, scope_type, scope_id,
                           <<>>, deleted # {}, Returned)
       /\ UNCHANGED <<now, permissions, roles, role_permissions, config, flight, _cache>>

AddPermissionToRole(role_id, permission) ==
    IF role_id \notin roles
    THEN /\ last' = Mutation("add_permission_to_role", None, role_id, None, None,
                             permission, FALSE, Returned)
         /\ UNCHANGED <<now, store, config, flight, _cache>>
    ELSE LET perm == ParsePermission(permission)
         IN /\ permissions' = permissions \cup {perm}
            /\ role_permissions' = [role_permissions EXCEPT ![role_id] = @ \cup {perm}]
            /\ last' = Mutation("add_permission_to_role", None, role_id, None, None,
                                permission, TRUE, Returned)
            /\ UNCHANGED <<now, roles, user_roles, config, flight, _cache>>

RemovePermissionFromRole(role_id, permission) ==
    IF role_id \notin roles
    THEN /\ last' = Mutation("remove_permission_from_role", None, role_id, None, None,
                             permission, FALSE, Returned)
         /\ UNCHANGED <<now, store, config, flight, _cache>>
    ELSE /\ role_permissions' = [role_permissions EXCEPT ![role_id] =
                {p \in @ : permission_string(p) # permission}]
         /\ last' = Mutation("remove_permission_from_role", None, role_id, None, None,
                             permission, TRUE, Returned)
         /\ UNCHANGED <<now, permissions, roles, user_roles, config, flight, _cache>>

\* db.delete(role) sets role_id of the role's assignments to NULL, which the
\* NOT NULL column refuses; the rows of the association table go with the role.
DeleteRole(role_id) ==
    IF role_id \notin roles
    THEN /\ last' = Mutation("delete_role", None, role_id, None, None, <<>>, FALSE, Returned)
         /\ UNCHANGED <<now, store, config, flight, _cache>>
    ELSE IF \E ur \in user_roles : ur.role_id = role_id
    THEN /\ last' = Mutation("delete_role", None, role_id, None, None, <<>>, FALSE,
                             IntegrityError)
         /\ UNCHANGED <<now, store, config, flight, _cache>>
    ELSE /\ roles' = roles \ {role_id}
         /\ role_permissions' = [role_permissions EXCEPT ![role_id] = {}]
         /\ last' = Mutation("delete_role", None, role_id, None, None, <<>>, TRUE, Returned)
         /\ UNCHANGED <<now, permissions, user_roles, config, flight, _cache>>

----------------------------------------------------------------------------
(* RBACService on the permission catalog, step by step: each session gives  *)
(* way at the SELECT and at the flush of get_or_create_permission; the rows *)
(* of permissions carry their id here                                       *)

IdleSession == [pc |-> "idle", op |-> None, role_id |-> None, todo |-> <<>>]

\* The rows of the catalog with the (resource, action) of the permission string.
PermissionRows(permission) ==
    {row \in permissions :
        /\ row.resource = ParsePermission(permission).resource
        /\ row.action = ParsePermission(permission).action}

\* Mutant: the table has no unique constraint.
ViolatesUniquePermission_NoConstraint(permission) == FALSE

\* The unique constraint uq_permission_resource_action refuses the INSERT.
ViolatesUniquePermission(permission) == PermissionRows(permission) # {}

\* get_or_create_permission has returned perm to the method op of session c:
\* create_role and add_permission_to_role append it to the role and go on
\* with the next permission string, if any.
ReturnPermission(c, perm) ==
    LET f == inflight[c]
    IN /\ role_permissions' =
             IF f.op = "get_or_create_permission" THEN role_permissions
             ELSE [role_permissions EXCEPT ![f.role_id] = @ \cup {perm}]
       /\ inflight' = [inflight EXCEPT ![c] =
             IF Len(f.todo) > 1 THEN [f EXCEPT !.pc = "select", !.todo = Tail(f.todo)]
             ELSE IdleSession]
       /\ last' = [NoCall EXCEPT !.op = "get_or_create_permission",
                                 !.permission = Head(f.todo), !.perm = perm,
                                 !.role_id = f.role_id, !.result = TRUE]

\* A call of get_or_create_permission(permission) begins in session c.
GetOrCreatePermission(c, permission) ==
    /\ inflight[c].pc = "idle"
    /\ inflight' = [inflight EXCEPT ![c] =
          [pc |-> "select", op |-> "get_or_create_permission", role_id |-> None,
           todo |-> <<permission>>]]
    /\ last' = [NoCall EXCEPT !.op = "begin", !.permission = permission]
    /\ UNCHANGED <<now, store, config, solo, _cache>>

\* create_role(name, permissions) in session c: the role is flushed, then the
\* loop asks for each permission string in turn.
CreateRole(c, role_id, permission_list) ==
    /\ inflight[c].pc = "idle"
    /\ role_id \notin roles
    /\ roles' = roles \cup {role_id}
    /\ inflight' = [inflight EXCEPT ![c] =
          IF permission_list = <<>> THEN IdleSession
          ELSE [pc |-> "select", op |-> "create_role", role_id |-> role_id,
                todo |-> permission_list]]
    /\ last' = [NoCall EXCEPT !.op = "create_role", !.role_id = role_id]
    /\ UNCHANGED <<now, permissions, role_permissions, user_roles, config, solo, _cache>>

\* add_permission_to_role(role_id, permission) in session c, up to get_role.
BeginAddPermissionToRole(c, role_id, permission) ==
    /\ inflight[c].pc = "idle"
    /\ inflight' = [inflight EXCEPT ![c] =
          IF role_id \notin roles THEN IdleSession
          ELSE [pc |-> "select", op |-> "add_permission_to_role", role_id |-> role_id,
                todo |-> <<permission>>]]
    /\ last' = [NoCall EXCEPT !.op = "begin", !.permission = permission,
                              !.role_id = role_id]
    /\ UNCHANGED <<now, store, config, solo, _cache>>

\* The SELECT of get_or_create_permission returns: scalar_one_or_none gives the
\* row, or None, and raises MultipleResultsFound on more than one row.
SelectPermission(c) ==
    LET f == inflight[c]
        rows == PermissionRows(Head(f.todo))
    IN /\ f.pc = "select"
       /\ IF Cardinality(rows) > 1
          THEN /\ inflight' = [inflight EXCEPT ![c] = IdleSession]
               /\ last' = [NoCall EXCEPT !.op = "get_or_create_permission",
                                         !.permission = Head(f.todo),
                                         !.outcome = [raised |-> TRUE, status_code |-> 500,
                                                      detail |-> <<"MultipleResultsFound">>]]
               /\ UNCHANGED role_permissions
          ELSE IF rows # {}
          THEN ReturnPermission(c, CHOOSE row \in rows : TRUE)
          ELSE /\ inflight' = [inflight EXCEPT ![c].pc = "insert"]
               /\ last' = [NoCall EXCEPT !.op = "select", !.permission = Head(f.todo)]
               /\ UNCHANGED role_permissions
       /\ UNCHANGED <<now, permissions, roles, user_roles, config, solo, _cache>>

\* db.add(perm) and the flush: a new row with a fresh id, unless the unique
\* constraint refuses it.
InsertPermission(c) ==
    LET f == inflight[c]
        perm == [id |-> Cardinality(permissions) + 1,
                 resource |-> ParsePermission(Head(f.todo)).resource,
                 action |-> ParsePermission(Head(f.todo)).action]
    IN /\ f.pc = "insert"
       /\ IF ViolatesUniquePermission(Head(f.todo))
          THEN /\ inflight' = [inflight EXCEPT ![c] = IdleSession]
               /\ last' = [NoCall EXCEPT !.op = "get_or_create_permission",
                                         !.permission = Head(f.todo),
                                         !.outcome = IntegrityError]
               /\ UNCHANGED <<permissions, role_permissions>>
          ELSE /\ permissions' = permissions \cup {perm}
               /\ ReturnPermission(c, perm)
       /\ UNCHANGED <<now, roles, user_roles, config, solo, _cache>>

----------------------------------------------------------------------------
(* Inputs *)

UserIds == {"u1"}
RoleIds == {"r1"}

User(id) ==
    [present |-> TRUE, id |-> id, is_admin |-> FALSE, permissions |-> {},
     organization_id |-> None, approval_limit |-> VNone]

Admin(id) == [User(id) EXCEPT !.is_admin = TRUE]

Resource(created_by_id, status, project_id) ==
    [present |-> TRUE, tablename |-> "posts", created_by_id |-> created_by_id,
     status |-> status, project_id |-> project_id, organization_id |-> None,
     amount |-> VNone]

BuiltinConditions == {"max_amount", "not_creator", "status", "same_tenant"}

\* No request is suspended.
Quiet ==
    /\ inflight = [u \in UserIds |-> Idle]
    /\ solo = NoSolo

\* The registries once the modules of the package are imported: each decorator
\* has registered its class.
BuiltinPolicyEngines ==
    <<[key |-> "simple", value |-> "SimplePolicyEngine"],
      [key |-> "rbac", value |-> "RBACPolicyEngine"]>>

BuiltinScopeProviders ==
    <<[key |-> "none", value |-> "NoScopeProvider"],
      [key |-> "ownership", value |-> "OwnershipScopeProvider"]>>

BuiltinConditionEvaluators ==
    <<[key |-> "max_amount", value |-> "MaxAmountCondition"],
      [key |-> "not_creator", value |-> "NotCreatorCondition"],
      [key |-> "status", value |-> "StatusCondition"],
      [key |-> "same_tenant", value |-> "SameTenantCondition"]>>

\* The registries and the settings every behaviour of the service starts with.
Defaults ==
    /\ _policy_engines = BuiltinPolicyEngines
    /\ _scope_providers = BuiltinScopeProviders
    /\ _condition_evaluators = BuiltinConditionEvaluators
    /\ provider_name = "none"
    /\ multi_tenant = FALSE

\* The roles and permissions every behaviour starts with.
InitialPermissions == {ParsePermission(Perm("posts", "create"))}
InitialRolePermissions == [r \in RoleIds |-> InitialPermissions]

----------------------------------------------------------------------------
(* Spec: an RBAC engine over a store that RBACService changes *)

RbacActors == {User("u1")}
RbacActions == {Perm("posts", "create"), Perm("posts", "delete")}
RbacResources == {NoResource, Resource(None, None, "X"), Resource(None, None, "Y")}
RbacPermissions == {Perm("posts", "create"), Perm("posts", "*")}
Scopes == {<<None, None>>, <<"project", "X">>}
ValidUntils == {Null, 1}

\* The rows that assign_role can store.
AssignableUserRoles ==
    {[user_id |-> u, role_id |-> r, scope_type |-> scope[1], scope_id |-> scope[2],
      valid_from |-> f, valid_until |-> v] :
        u \in UserIds, r \in RoleIds, scope \in Scopes, f \in 0..MaxTime,
        v \in ValidUntils}

Init ==
    /\ engine_name = "rbac"
    /\ now = 0
    /\ permissions = InitialPermissions
    /\ roles = RoleIds
    /\ role_permissions = InitialRolePermissions
    /\ user_roles = {}
    /\ _cache = [u \in UserIds |-> NoEntry]
    /\ Defaults
    /\ request = NoRequest
    /\ Quiet
    /\ last = NoCall

Next ==
    \/ Tick
    \/ \E actor \in RbacActors, action \in RbacActions, resource \in RbacResources :
          Evaluate(actor, action, resource)
    \/ \E actor \in RbacActors, resource \in RbacResources :
          GetPermissions(actor, resource)
    \/ \E user_id \in UserIds \cup {None} : ClearCache(user_id)
    \/ \E user_id \in UserIds, role_id \in RoleIds, scope \in Scopes,
          valid_until \in ValidUntils :
          AssignRole(user_id, role_id, scope[1], scope[2], valid_until)
    \/ \E user_id \in UserIds, role_id \in RoleIds, scope \in Scopes :
          RevokeRole(user_id, role_id, scope[1], scope[2])
    \/ \E role_id \in RoleIds, permission \in RbacPermissions :
          AddPermissionToRole(role_id, permission)
    \/ \E role_id \in RoleIds, permission \in RbacPermissions :
          RemovePermissionFromRole(role_id, permission)
    \/ \E role_id \in RoleIds : DeleteRole(role_id)
    \/ \E user_id \in UserIds : GetUserPermissions(user_id)
    \/ \E user_role \in AssignableUserRoles : IsValid(user_role)

Spec == Init /\ [][Next]_vars

----------------------------------------------------------------------------
(* SpecAuthz: the authorization service over either engine, on a fixed     *)
(* store in which u1 holds role r1 without scope or expiry                 *)

AuthzPermissionSets ==
    {{}, {Perm("posts", "create")}, {Perm("posts", "*")}, {Star}, {<<":", "*">>},
     {Str("approve")}}

AuthzActors ==
    {[User("u1") EXCEPT !.permissions = P] : P \in AuthzPermissionSets}
        \cup {Admin("u1"), User(None)}

AuthzActions ==
    {Perm("posts", "create"), Perm("posts", "delete"), Perm("posts", "read"),
     Perm("posts", "update"), Str("read"), Str("update"), Str("approve"),
     <<":", "create">>}

AuthzResources ==
    {NoResource, Resource("u1", "pending", "X"), Resource("u9", "pending", "X"),
     Resource("u9", "approved", "X"), Resource(None, None, None)}

Condition(name, expected) == [name |-> name, expected |-> expected]

AuthzContexts ==
    {[conditions |-> c, amount |-> VNone] :
        c \in {<<>>, <<Condition("not_creator", VBool(TRUE))>>}
              \cup {<<Condition("status", s), Condition("not_creator", b)>> :
                      s \in {VStr("pending"), VStr("approved"),
                             VList({VStr("pending"), VStr("review")})},
                      b \in {VBool(TRUE), VBool(FALSE)}}}

InitAuthz ==
    /\ engine_name \in {"simple", "rbac"}
    /\ now = 0
    /\ \E S \in AuthzPermissionSets :
          /\ engine_name = "simple" => S = {}
          /\ permissions = {ParsePermission(p) : p \in S}
          /\ role_permissions = [r \in RoleIds |-> {ParsePermission(p) : p \in S}]
    /\ roles = RoleIds
    /\ user_roles = {[user_id |-> "u1", role_id |-> "r1", scope_type |-> None,
                      scope_id |-> None, valid_from |-> 0, valid_until |-> Null]}
    /\ _cache = [u \in UserIds |-> NoEntry]
    /\ Defaults
    /\ request \in [actor : AuthzActors, action : AuthzActions,
                    resource : AuthzResources, context : AuthzContexts]
    /\ engine_name = "rbac" => request.actor.permissions \in {{}, {Star}}
    /\ Quiet
    /\ last = NoCall

NextAuthz ==
    LET actor == request.actor
        action == request.action
        resource == request.resource
        context == request.context
    IN \/ Evaluate(actor, action, resource)
       \/ GetPermissions(actor, resource)
       \/ HasPermission(actor, action, resource)
       \/ \E actor_arg \in {actor, NoActor} :
             Authorize(actor, actor_arg, action, resource, context)
       \/ Require(actor, action, resource, context)
       \/ Can(actor, action, resource, context)

SpecAuthz == InitAuthz /\ [][NextAuthz]_vars

----------------------------------------------------------------------------
(* SpecCond: the condition evaluators, alone and under the service, for a   *)
(* SimplePolicyEngine that allows "read" and denies "approve"               *)

TenantIds == {None, "o1", "o2"}

Amounts == {VNone, VInt(1), VInt(2)}

CondActors ==
    {[User(id) EXCEPT !.organization_id = o, !.approval_limit = l] :
        id \in {"u1", None}, o \in TenantIds, l \in {VNone, VInt(1), VInt(3)}}

CondActions == {Str("read"), Str("approve")}

CondResources ==
    {NoResource} \cup
    {[Resource(c, st, None) EXCEPT !.organization_id = o, !.amount = a] :
        c \in {None, "u1", "u9"}, st \in {None, "pending"},
        o \in {None, "o1"}, a \in {VNone, VInt(2)}}

Expecteds ==
    {VNone, VBool(TRUE), VBool(FALSE), VInt(0), VInt(1), VStr("pending"),
     VList({VStr("pending"), VStr("review")})}

\* One built-in condition, or one behind a key that no evaluator is registered for.
CondConditionMaps ==
    {<<Condition(n, e)>> : n \in BuiltinConditions, e \in Expecteds}
        \cup {<<Condition("custom", VBool(TRUE))>>}
        \cup {<<Condition("custom", VBool(TRUE)), Condition(n, VBool(TRUE))>> :
                 n \in BuiltinConditions}

\* context["amount"] is set only where max_amount is asked for.
CondContexts ==
    {[conditions |-> c, amount |-> a] : c \in CondConditionMaps, a \in Amounts} \
    {[conditions |-> c, amount |-> a] :
        c \in {m \in CondConditionMaps : \A i \in 1..Len(m) : m[i].name # "max_amount"},
        a \in Amounts \ {VNone}}

InitCond ==
    /\ engine_name = "simple"
    /\ now = 0
    /\ permissions = {}
    /\ roles = RoleIds
    /\ role_permissions = [r \in RoleIds |-> {}]
    /\ user_roles = {}
    /\ _cache = [u \in UserIds |-> NoEntry]
    /\ Defaults
    /\ request \in [actor : CondActors, action : CondActions,
                    resource : CondResources, context : CondContexts]
    /\ Quiet
    /\ last = NoCall

NextCond ==
    LET actor == request.actor
        action == request.action
        resource == request.resource
        context == request.context
    IN \/ \E i \in 1..Len(context.conditions) :
             EvaluateCondition(context.conditions[i].name, context.conditions[i].expected,
                               actor, resource, context)
       \/ Authorize(actor, NoActor, action, resource, context)
       \/ Require(actor, action, resource, context)

SpecCond == InitCond /\ [][NextCond]_vars

----------------------------------------------------------------------------
(* SpecScope: the configured scope provider, for every setting of           *)
(* multi_tenant                                                             *)

ScopeActors ==
    {[User(id) EXCEPT !.is_admin = a, !.organization_id = o] :
        id \in {"u1", "u2", None}, a \in BOOLEAN, o \in TenantIds}

InitScope ==
    /\ engine_name = "simple"
    /\ now = 0
    /\ permissions = {}
    /\ roles = RoleIds
    /\ role_permissions = [r \in RoleIds |-> {}]
    /\ user_roles = {}
    /\ _cache = [u \in UserIds |-> NoEntry]
    /\ _policy_engines = BuiltinPolicyEngines
    /\ _scope_providers = BuiltinScopeProviders
    /\ _condition_evaluators = BuiltinConditionEvaluators
    /\ provider_name \in {"none", "ownership"}
    /\ multi_tenant \in BOOLEAN
    /\ request \in [actor : ScopeActors, action : CondActions,
                    resource : {NoResource}, context : {NoContext}]
    /\ Quiet
    /\ last = NoCall

NextScope == GetScope(request.actor, request.action)

SpecScope == InitScope /\ [][NextScope]_vars

----------------------------------------------------------------------------
(* SpecConc: requests of two actors interleaved on one RBAC engine; u1     *)
(* holds r1 scoped to project X, u2 holds r1 without scope                  *)

ConcUserIds == {"u1", "u2"}

ConcActors == {User(id) : id \in ConcUserIds}

ConcResources == {NoResource, Resource("u1", None, "X"), Resource("u1", None, "Y")}

ConcContexts == {NoContext, [NoContext EXCEPT !.conditions =
                                <<Condition("not_creator", VBool(TRUE))>>]}

InitConc ==
    /\ engine_name = "rbac"
    /\ now = 0
    /\ permissions = InitialPermissions
    /\ roles = RoleIds
    /\ role_permissions = InitialRolePermissions
    /\ user_roles =
          {[user_id |-> "u1", role_id |-> "r1", scope_type |-> "project",
            scope_id |-> "X", valid_from |-> 0, valid_until |-> Null],
           [user_id |-> "u2", role_id |-> "r1", scope_type |-> None,
            scope_id |-> None, valid_from |-> 0, valid_until |-> Null]}
    /\ _cache = [u \in ConcUserIds |-> NoEntry]
    /\ Defaults
    /\ request = NoRequest
    /\ inflight = [u \in ConcUserIds |-> Idle]
    /\ solo = NoSolo
    /\ last = NoCall

NextConc ==
    \/ Tick
    \/ \E self \in ConcActors, action \in RbacActions, resource \in ConcResources,
          context \in ConcContexts :
          BeginAuthorize(self, action, resource, context)
    \/ \E user_id \in ConcUserIds : QueryUserRoles(user_id)
    \/ \E user_id \in ConcUserIds : QueryRoles(user_id)

SpecConc == InitConc /\ [][NextConc]_vars

----------------------------------------------------------------------------
(* SpecRace: requests of one actor on the shared RBAC engine, suspended at  *)
(* their lookups while RBACService changes the actor's assignments and the  *)
(* caller of the mutation clears the actor's cache entry                    *)

RaceResources == {NoResource, Resource(None, None, "X")}

InitRace ==
    /\ engine_name = "rbac"
    /\ now = 0
    /\ permissions = InitialPermissions
    /\ roles = RoleIds
    /\ role_permissions = InitialRolePermissions
    /\ user_roles =
          {[user_id |-> "u1", role_id |-> "r1", scope_type |-> None,
            scope_id |-> None, valid_from |-> 0, valid_until |-> Null]}
    /\ _cache = [u \in UserIds |-> NoEntry]
    /\ Defaults
    /\ request = NoRequest
    /\ Quiet
    /\ last = NoCall

NextRace ==
    \/ Tick
    \/ \E self \in RbacActors, action \in RbacActions, resource \in RaceResources :
          BeginAuthorize(self, action, resource, NoContext)
    \/ \E user_id \in UserIds : QueryUserRoles(user_id)
    \/ \E user_id \in UserIds : QueryRoles(user_id)
    \/ \E user_id \in UserIds : ClearCache(user_id)
    \/ \E user_id \in UserIds, role_id \in RoleIds, scope \in Scopes :
          AssignRole(user_id, role_id, scope[1], scope[2], Null)
    \/ \E user_id \in UserIds, role_id \in RoleIds :
          RevokeRole(user_id, role_id, None, None)

SpecRace == InitRace /\ [][NextRace]_vars

----------------------------------------------------------------------------
(* SpecFail: the service over the RBAC engine with a database that may fail *)
(* at any lookup; u1 holds r1 and the store does not change                 *)

FailActors == {User("u1"), Admin("u1"), User(None)}

FailOps == {"evaluate", "get_permissions", "authorize", "require", "can"}

FailContexts == {NoContext, [NoContext EXCEPT !.conditions =
                                <<Condition("not_creator", VBool(TRUE))>>]}

InitFail ==
    /\ engine_name = "rbac"
    /\ now = 0
    /\ permissions = InitialPermissions
    /\ roles = RoleIds
    /\ role_permissions = InitialRolePermissions
    /\ user_roles =
          {[user_id |-> "u1", role_id |-> "r1", scope_type |-> None,
            scope_id |-> None, valid_from |-> 0, valid_until |-> Null]}
    /\ _cache = [u \in UserIds |-> NoEntry]
    /\ Defaults
    /\ Quiet
    /\ last = NoCall
    /\ request \in [actor : FailActors, action : RbacActions,
                    resource : {NoResource, Resource("u1", None, "X")},
                    context : FailContexts]

NextFail ==
    LET actor == request.actor
        action == request.action
        resource == request.resource
        context == request.context
    IN \/ Tick
       \/ Evaluate(actor, action, resource)
       \/ GetPermissions(actor, resource)
       \/ Authorize(actor, NoActor, action, resource, context)
       \/ Require(actor, action, resource, context)
       \/ Can(actor, action, resource, context)
       \/ \E op \in FailOps : LookupFails(op, actor, action, resource, context)
       \/ \E user_id \in UserIds : ClearCache(user_id)

SpecFail == InitFail /\ [][NextFail]_vars

----------------------------------------------------------------------------
(* SpecCatalog: two sessions of RBACService on an empty catalog             *)

Sessions == {"s1", "s2"}

CatalogRoleIds == {"r1", "r2"}

\* "posts" and "posts:*" name one pair; "a:b:c" splits at its first colon.
CatalogPermissions == {Str("posts"), Perm("posts", "*"), <<"a", ":", "b", ":", "c">>}

CatalogPermissionLists ==
    {<<>>, <<Str("posts"), Perm("posts", "*")>>, <<Perm("posts", "*")>>}

InitCatalog ==
    /\ engine_name = "rbac"
    /\ now = 0
    /\ permissions = {}
    /\ roles = {}
    /\ role_permissions = [r \in CatalogRoleIds |-> {}]
    /\ user_roles = {}
    /\ _cache = [u \in UserIds |-> NoEntry]
    /\ Defaults
    /\ request = NoRequest
    /\ inflight = [c \in Sessions |-> IdleSession]
    /\ solo = NoSolo
    /\ last = NoCall

NextCatalog ==
    \/ \E c \in Sessions, permission \in CatalogPermissions :
          GetOrCreatePermission(c, permission)
    \/ \E c \in Sessions, role_id \in CatalogRoleIds,
          permission_list \in CatalogPermissionLists :
          CreateRole(c, role_id, permission_list)
    \/ \E c \in Sessions, role_id \in CatalogRoleIds, permission \in CatalogPermissions :
          BeginAddPermissionToRole(c, role_id, permission)
    \/ \E c \in Sessions : SelectPermission(c)
    \/ \E c \in Sessions : InsertPermission(c)

SpecCatalog == InitCatalog /\ [][NextCatalog]_vars

----------------------------------------------------------------------------
(* SpecRegistry: AuthRegistry from its empty class dicts on, with classes   *)
(* registered and looked up under the names x and y in any order            *)

RegistryNames == {"x", "y"}

PolicyEngineClasses == {"SimplePolicyEngine", "RBACPolicyEngine"}
ScopeProviderClasses == {"NoScopeProvider", "OwnershipScopeProvider"}
ConditionEvaluatorClasses == {"StatusCondition", "NotCreatorCondition"}

InitRegistry ==
    /\ engine_name = "simple"
    /\ now = 0
    /\ permissions = {}
    /\ roles = RoleIds
    /\ role_permissions = [r \in RoleIds |-> {}]
    /\ user_roles = {}
    /\ _cache = [u \in UserIds |-> NoEntry]
    /\ _policy_engines = <<>>
    /\ _scope_providers = <<>>
    /\ _condition_evaluators = <<>>
    /\ provider_name = "none"
    /\ multi_tenant = FALSE
    /\ request = NoRequest
    /\ Quiet
    /\ last = NoCall

NextRegistry ==
    \/ \E name \in RegistryNames, engine_class \in PolicyEngineClasses :
          policy_engine(name, engine_class)
    \/ \E name \in RegistryNames, provider_class \in ScopeProviderClasses :
          scope_provider(name, provider_class)
    \/ \E condition_type \in RegistryNames, evaluator_class \in ConditionEvaluatorClasses :
          condition(condition_type, evaluator_class)
    \/ \E name \in RegistryNames : GetPolicyEngine(name)
    \/ \E name \in RegistryNames : GetScopeProvider(name)
    \/ \E condition_type \in RegistryNames : GetConditionEvaluator(condition_type)

SpecRegistry == InitRegistry /\ [][NextRegistry]_vars

----------------------------------------------------------------------------
(* Properties *)

IsCall(ops) == last.op \in ops

Conditions == last.context.conditions

\* Every registered condition of the context passes for the actor and resource.
AllConditionsPass(actor, resource, context) ==
    \A i \in 1..Len(context.conditions) :
        has_condition(context.conditions[i].name) =>
            ConditionEvaluate(context.conditions[i].name, context.conditions[i].expected,
                              actor, resource, context).passed

\* "<part of p before the first colon>:*" is in the set.
WildcardIn(perms, p) == HasColon(p) /\ (BeforeColon(p) \o <<":", "*">>) \in perms

\* The permission strings of the roles the user holds through the assignments in urs.
PermissionsOf(urs) ==
    UNION {{permission_string(p) : p \in role_permissions[ur.role_id]} : ur \in urs}

\* The stored assignments of the user whose role has the permission.
Sources(user_id, p) ==
    {ur \in user_roles : ur.user_id = user_id /\ p \in PermissionsOf({ur})}

\* C1 (as stated): for an actor whose admin flag is set, evaluate and authorize
\* return allowed=true for every action, resource and conditions map, failing
\* conditions included.
C1_AdminAlwaysAllowed ==
    (IsCall({"evaluate", "authorize"}) /\ last.actor.is_admin) => last.allowed

\* C1 (amended): for an actor whose admin flag is set, evaluate of either engine
\* allows every action on every resource, and authorize allows exactly when no
\* registered condition of the conditions map fails for the actor and resource.
C1_AdminAllowedUpToConditions ==
    last.actor.is_admin =>
        /\ IsCall({"evaluate"}) => last.allowed
        /\ IsCall({"authorize"}) =>
              (last.allowed <=> AllConditionsPass(last.actor, last.resource, last.context))

C1_Witness ==
    /\ IsCall({"authorize"})
    /\ last.actor.is_admin
    /\ last.action = Perm("posts", "delete")
    /\ Conditions # <<>>
    /\ last.allowed

\* C2: for a non-admin actor whose every source of permission p is an assignment
\* scoped to a project other than the resource's, the resolved permission set
\* does not include p and an action that is p is not allowed.
C2_ScopedContainment ==
    (IsCall({"evaluate", "get_permissions"}) /\ ~last.actor.is_admin
        /\ last.actor.id # None /\ last.resource.present) =>
        \A p \in RbacPermissions :
            ( /\ Sources(last.actor.id, p) # {}
              /\ \A ur \in Sources(last.actor.id, p) :
                    /\ ur.scope_type = "project"
                    /\ ur.scope_id # last.resource.project_id )
            => /\ p \notin last.permissions
               /\ (IsCall({"evaluate"}) /\ last.action = p) => ~last.allowed

\* The permission set a lookup in the store gives the user for the resource now.
StoredPermissions(user_id, resource) ==
    PermissionsOf({ur \in ValidUserRoles(user_id) : RoleApplies(ur, resource)})

Grants(perms, action) ==
    action \in perms \/ Star \in perms \/ WildcardIn(perms, action)

\* C3: the cache entry of the affected user is invalidated before revoke_role or
\* remove_permission_from_role completes, so the first evaluate after either
\* allows a non-admin only what the stored roles and assignments still grant.
C3_NoStaleAllowAfterRevoke ==
    [][(/\ last.op \in {"revoke_role", "remove_permission_from_role"}
        /\ last'.op = "evaluate"
        /\ ~last'.actor.is_admin
        /\ last'.allowed)
       => Grants(StoredPermissions(last'.actor.id, last'.resource), last'.action)]_vars

\* C4: a permission whose stored sources are all expired or not yet valid is not
\* in the permission set evaluate/get_permissions use, cached or not.
C4_ExpiredExcluded ==
    (IsCall({"evaluate", "get_permissions"}) /\ ~last.actor.is_admin
        /\ last.actor.id # None) =>
        \A p \in last.permissions :
            Sources(last.actor.id, p) # {} =>
                Sources(last.actor.id, p) \cap ValidUserRoles(last.actor.id) # {}

\* C5: with conditions {"status": s, "not_creator": c}, authorize allows iff the
\* policy engine allows, the status evaluator passes and the not_creator
\* evaluator passes; so a failing expected value for either denies.
C5_ConditionAndLaw ==
    (IsCall({"authorize"}) /\ Len(Conditions) = 2
        /\ Conditions[1].name = "status" /\ Conditions[2].name = "not_creator") =>
        (last.allowed <=>
            /\ last.base
            /\ StatusCondition_evaluate(Conditions[1].expected, last.actor,
                                        last.resource, last.context).passed
            /\ NotCreatorCondition_evaluate(Conditions[2].expected, last.actor,
                                            last.resource, last.context).passed)

\* The policy allows and the status passes, and the failing not_creator denies.
C5_Witness ==
    /\ IsCall({"authorize"}) /\ Len(Conditions) = 2
    /\ last.base
    /\ last.evaluated = <<"status", "not_creator">>
    /\ ~last.allowed

\* C6: require raises 403 (detail: the decision's reason, or "Permission denied"
\* for an empty reason) exactly when can with the same arguments returns false,
\* and can never raises.
C6_RequireIffNotCan ==
    /\ IsCall({"require"}) =>
          LET c == can(last.actor, last.action, last.resource, last.context)
          IN /\ last.outcome.raised <=> ~c.result
             /\ last.outcome.raised =>
                   /\ last.outcome.status_code = 403
                   /\ last.outcome.detail # NoReason
                   /\ last.outcome.detail \in {c.decision.reason, <<"Permission denied">>}
             /\ ~last.outcome.raised => last.outcome = Returned
    /\ IsCall({"can"}) =>
          /\ ~last.outcome.raised
          /\ last.result <=>
                ~require(last.actor, last.action, last.resource, last.context).outcome.raised

\* require raises for a denial that a condition produced.
C6_Witness ==
    /\ IsCall({"require"})
    /\ last.base
    /\ last.outcome.raised
    /\ last.outcome.status_code = 403

\* C7: for a non-admin actor and a permission p such that get_permissions
\* returns neither p, nor "*", nor a wildcard matching p, has_permission is false.
C7_NoPermissionNoAccess ==
    (IsCall({"has_permission"}) /\ ~last.actor.is_admin) =>
        LET perms == PolicyEngine_get_permissions(last.actor, last.resource).permissions
        IN (last.permission \notin perms /\ Star \notin perms
               /\ ~WildcardIn(perms, last.permission)) => ~last.result

\* A non-admin with a non-empty permission set is refused a permission not in it.
C7_Witness ==
    /\ IsCall({"has_permission"}) /\ ~last.actor.is_admin
    /\ Perm("posts", "create") \in last.permissions
    /\ last.permission = Perm("posts", "delete")
    /\ ~last.result

\* C8: has_permission is true whenever get_permissions contains the permission,
\* or "*", or "<resource>:*" for the part of the permission before the colon.
C8_HasPermissionWildcard ==
    IsCall({"has_permission"}) =>
        LET perms == PolicyEngine_get_permissions(last.actor, last.resource).permissions
        IN (last.permission \in perms \/ Star \in perms
               \/ WildcardIn(perms, last.permission)) => last.result

\* C9: SimplePolicyEngine.evaluate allows iff the actor is admin, or the action
\* or "*" is in its permission list, or "<before first colon>:*" is, or the actor
\* owns the supplied resource and the action is a read or an update, or the
\* action is a read; every deny carries "Permission denied".
C9_SimpleEvaluate ==
    (IsCall({"evaluate"}) /\ engine_name = "simple") =>
        LET a == last.action
            perms == last.actor.permissions
            owner == /\ last.resource.present
                     /\ last.resource.created_by_id # None
                     /\ last.resource.created_by_id = last.actor.id
            read == a = Str("read") \/ (Len(a) >= 2 /\ a[Len(a) - 1] = ":" /\ a[Len(a)] = "read")
            update == a = Str("update")
                         \/ (Len(a) >= 2 /\ a[Len(a) - 1] = ":" /\ a[Len(a)] = "update")
        IN /\ last.allowed <=>
                \/ last.actor.is_admin
                \/ a \in perms \/ Star \in perms
                \/ WildcardIn(perms, a)
                \/ owner /\ (read \/ update)
                \/ read
           /\ ~last.allowed => Contains(last.reason, "Permission denied")

\* permissions ["posts:create"]: "posts:delete" is denied.
C9_Witness ==
    /\ IsCall({"evaluate"}) /\ engine_name = "simple"
    /\ last.actor.permissions = {Perm("posts", "create")}
    /\ last.action = Perm("posts", "delete")
    /\ ~last.allowed

\* C10 (as stated): RBACPolicyEngine.evaluate allows a non-admin iff the resolved
\* permission set contains the action, or "*", or "<before first colon>:*";
\* otherwise it denies with "Missing permission: <action>", or "User ID not found"
\* for an actor without id.
C10_RbacEvaluate ==
    (IsCall({"evaluate"}) /\ engine_name = "rbac" /\ ~last.actor.is_admin) =>
        LET perms == PolicyEngine_get_permissions(last.actor, last.resource).permissions
        IN /\ last.allowed <=> Grants(perms, last.action)
           /\ ~last.allowed =>
                 last.reason = IF last.actor.id = None THEN Str("User ID not found")
                               ELSE <<"Missing permission: ">> \o last.action

\* C10 (amended): as stated, with the wildcard rule only for an action whose part
\* before the first colon is not empty.
C10_RbacEvaluateNonEmptyType ==
    (IsCall({"evaluate"}) /\ engine_name = "rbac" /\ ~last.actor.is_admin) =>
        LET perms == PolicyEngine_get_permissions(last.actor, last.resource).permissions
        IN /\ last.allowed <=>
                \/ last.action \in perms
                \/ Star \in perms
                \/ WildcardIn(perms, last.action) /\ BeforeColon(last.action) # <<>>
           /\ ~last.allowed =>
                 last.reason = IF last.actor.id = None THEN Str("User ID not found")
                               ELSE <<"Missing permission: ">> \o last.action

\* The resource wildcard of a role allows an action of that resource type.
C10_Witness ==
    /\ IsCall({"evaluate"}) /\ engine_name = "rbac" /\ ~last.actor.is_admin
    /\ last.permissions = {Perm("posts", "*")}
    /\ last.action = Perm("posts", "delete")
    /\ last.allowed

\* C11: require with conditions {"not_creator": true} on a resource whose creator
\* id equals the actor's id (both non-null) raises 403, whether or not the policy
\* engine allows the action; the not_creator evaluator passes for a falsy
\* expected value and for no resource.
C11_SegregationOfDuties ==
    /\ (IsCall({"require"}) /\ Conditions = <<Condition("not_creator", VBool(TRUE))>>
          /\ last.resource.present
          /\ last.resource.created_by_id # None
          /\ last.resource.created_by_id = last.actor.id) =>
            /\ last.outcome.raised
            /\ last.outcome.status_code = 403
    /\ (IsCall({"condition"}) /\ last.condition_type = "not_creator"
          /\ (~Truthy(last.expected) \/ ~last.resource.present)) =>
            /\ ~last.outcome.raised
            /\ last.result

\* The policy engine allows the creator's "read"; not_creator denies it.
C11_Witness ==
    /\ IsCall({"require"}) /\ Conditions = <<Condition("not_creator", VBool(TRUE))>>
    /\ last.actor.id = "u1" /\ last.resource.created_by_id = "u1"
    /\ last.base
    /\ last.outcome.raised
    /\ last.reason =
          <<"Cannot perform this action on your own resource (segregation of duties)">>

\* The call on a built-in evaluator has no amount to look at.
NoAmount ==
    /\ last.context.amount = VNone
    /\ (~last.resource.present \/ last.resource.amount = VNone)

\* The attribute the evaluator compares is missing on the resource or the actor.
MissingAttribute ==
    \/ last.condition_type = "max_amount" /\ NoAmount
    \/ /\ last.condition_type = "not_creator"
       /\ (last.resource.created_by_id = None \/ last.actor.id = None)
    \/ /\ last.condition_type = "same_tenant"
       /\ (last.resource.organization_id = None \/ last.actor.organization_id = None)

\* C12 (as stated): a registered built-in condition whose referenced attribute is
\* missing on the resource or actor passes and does not raise; in particular
\* status passes for a resource without status.
C12_MissingAttributePasses ==
    (IsCall({"condition"}) /\ last.condition_type \in BuiltinConditions) =>
        /\ ~last.outcome.raised
        /\ MissingAttribute => last.result
        /\ (last.condition_type = "status" /\ last.resource.present
               /\ last.resource.status = None) => last.result

\* C12 (amended): max_amount, not_creator and same_tenant pass when the attribute
\* they compare is missing, and no built-in condition raises; status reads a
\* missing status as None and passes only for an expected value that is None
\* or a list containing None.
C12_MissingAttributeExceptStatus ==
    (IsCall({"condition"}) /\ last.condition_type \in BuiltinConditions) =>
        /\ ~last.outcome.raised
        /\ MissingAttribute => last.result
        /\ (last.condition_type = "status" /\ last.resource.present
               /\ last.resource.status = None) =>
              (last.result <=>
                  \/ last.expected = VNone
                  \/ last.expected.t = "list" /\ VNone \in last.expected.l)

\* status "pending" is asked of a resource without status, and fails.
C12_Witness ==
    /\ IsCall({"condition"}) /\ last.condition_type = "status"
    /\ last.resource.present /\ last.resource.status = None
    /\ last.expected = VStr("pending")
    /\ ~last.result
    /\ last.reason = <<"Resource status must be">>

\* C13: same_tenant fails exactly when expected is truthy, a resource is given,
\* the actor and the resource both have a tenant id and the two differ; it
\* passes in every other case and never raises.
C13_SameTenant ==
    (IsCall({"condition"}) /\ last.condition_type = "same_tenant") =>
        /\ ~last.outcome.raised
        /\ ~last.result <=>
              /\ Truthy(last.expected)
              /\ last.resource.present
              /\ last.actor.organization_id # None
              /\ last.resource.organization_id # None
              /\ last.actor.organization_id # last.resource.organization_id
        /\ ~last.result =>
              last.reason = <<"Cannot access resources from another organization">>

\* An actor of tenant o2 on a resource of tenant o1 fails; so the tenants differ.
C13_Witness ==
    /\ IsCall({"condition"}) /\ last.condition_type = "same_tenant"
    /\ last.actor.organization_id = "o2"
    /\ last.resource.organization_id = "o1"
    /\ last.expected = VBool(TRUE)
    /\ ~last.result

\* The amount max_amount looks at: context["amount"], or else the resource's.
AmountOf(context, resource) ==
    IF context.amount = VNone /\ resource.present THEN resource.amount ELSE context.amount

\* C14: max_amount passes with no amount; for a numeric expected it fails iff
\* amount > expected; for expected == true it fails iff the actor has an
\* approval_limit and amount > approval_limit.
C14_MaxAmount ==
    (IsCall({"condition"}) /\ last.condition_type = "max_amount") =>
        LET amount == AmountOf(last.context, last.resource)
            limit == last.actor.approval_limit
        IN /\ ~last.outcome.raised
           /\ amount = VNone => last.result
           /\ (amount # VNone /\ last.expected.t = "int") =>
                 (~last.result <=> amount.n > last.expected.n)
           /\ (amount # VNone /\ last.expected = VBool(TRUE)) =>
                 (~last.result <=> (limit # VNone /\ amount.n > limit.n))

\* The context with the keys of conditions that no evaluator is registered for removed.
RegisteredOnly(context) ==
    [context EXCEPT !.conditions = SelectSeq(@, LAMBDA c : has_condition(c.name))]

\* C15: authorize and require skip every key of context.conditions that is not
\* registered: the decision (and what require raises) is the one obtained with
\* those keys removed, and a lone unknown key leaves the engine's decision.
C15_UnknownConditionSkipped ==
    /\ IsCall({"authorize"}) =>
          LET a == authorize(last.actor, NoActor, last.action, last.resource,
                             RegisteredOnly(last.context))
          IN /\ last.allowed = a.decision.allowed
             /\ last.reason = a.decision.reason
             /\ last.evaluated = a.evaluated
             /\ \A i \in 1..Len(last.evaluated) : has_condition(last.evaluated[i])
             /\ RegisteredOnly(last.context).conditions = <<>> => last.allowed = last.base
    /\ IsCall({"require"}) =>
          last.outcome = require(last.actor, last.action, last.resource,
                                 RegisteredOnly(last.context)).outcome

\* The key "custom" is passed over and the next condition is evaluated.
C15_Witness ==
    /\ IsCall({"authorize"})
    /\ Len(Conditions) = 2
    /\ Conditions[1].name = "custom" /\ ~has_condition("custom")
    /\ last.base
    /\ last.evaluated = <<Conditions[2].name>>
    /\ last.allowed

\* The filters of a non-admin under OwnershipScopeProvider: the owner, and the
\* tenant when multi-tenant and the actor has one.
OwnershipFilters(actor) ==
    [created_by_id |-> actor.id,
     organization_id |-> IF multi_tenant /\ actor.organization_id # None
                         THEN actor.organization_id ELSE Absent]

\* C16 (as stated): OwnershipScopeProvider.get_scope gives a non-admin level
\* "ownership" with filters[owner_field] == actor.id, plus the tenant filter when
\* multi-tenant and the actor has a tenant; it gives an admin level "tenant" when
\* multi-tenancy is enabled and "global" otherwise, never an ownership filter.
C16_OwnershipScope ==
    (IsCall({"get_scope"}) /\ provider_name = "ownership") =>
        /\ ~last.actor.is_admin =>
              /\ last.scope.level = "ownership"
              /\ last.scope.filters = OwnershipFilters(last.actor)
        /\ last.actor.is_admin =>
              /\ last.scope.level = IF multi_tenant THEN "tenant" ELSE "global"
              /\ last.scope.filters.created_by_id = Absent

\* C16 (amended): as stated for a non-admin; an admin gets level "tenant", with
\* its tenant as the only filter, when multi-tenancy is enabled and the admin
\* has a tenant, and level "global" without filters otherwise.
C16_OwnershipScopeAdminTenant ==
    (IsCall({"get_scope"}) /\ provider_name = "ownership") =>
        /\ ~last.actor.is_admin =>
              /\ last.scope.level = "ownership"
              /\ last.scope.filters = OwnershipFilters(last.actor)
        /\ last.actor.is_admin =>
              /\ last.scope.filters.created_by_id = Absent
              /\ IF multi_tenant /\ last.actor.organization_id # None
                 THEN /\ last.scope.level = "tenant"
                      /\ last.scope.filters.organization_id = last.actor.organization_id
                 ELSE /\ last.scope.level = "global"
                      /\ last.scope.filters.organization_id = Absent

\* A non-admin of tenant o1 under multi-tenancy: owner filter and tenant filter.
C16_Witness ==
    /\ IsCall({"get_scope"}) /\ provider_name = "ownership" /\ multi_tenant
    /\ ~last.actor.is_admin
    /\ last.scope = DataScope("ownership", "u1", "o1")

\* C17: NoScopeProvider.get_scope gives global access only when multi-tenancy is
\* disabled; when it is enabled every actor, one without tenant included, gets a
\* tenant-level scope filtered by the actor's tenant attribute, never a global one.
C17_NoScopeTenant ==
    (IsCall({"get_scope"}) /\ provider_name = "none") =>
        IF multi_tenant
        THEN /\ last.scope.level = "tenant"
             /\ last.scope.filters.organization_id = last.actor.organization_id
        ELSE last.scope = global_access

\* C18: requests of other actors never interfere with those of the watched
\* actor: under every interleaving its cache entry is the one its own requests
\* alone would have left, and every decision returned to it (allowed, reason,
\* permission set used) is the one it would have got had no other actor's
\* request run before or in between.
C18_NoInterference ==
    /\ _cache[cache_key(Watched)] = solo.entry
    /\ (IsCall({"authorize"}) /\ last.actor.id = Watched) => last = solo.last

\* The watched actor is answered from its own cache entry while the other
\* actor has an entry of its own and a request suspended on its lookup.
C18_Witness ==
    /\ IsCall({"authorize"}) /\ last.actor.id = Watched
    /\ last.allowed
    /\ _cache["u1"].present
    /\ _cache["u2"].present
    /\ inflight["u2"].pc = "roles"

\* The user holds the role through an assignment that is valid now:
\* valid_from <= now, and valid_until null or later than now.
HoldsRole(user_id, role_id) ==
    \E ur \in user_roles :
        /\ ur.user_id = user_id /\ ur.role_id = role_id
        /\ ur.valid_from <= now
        /\ (ur.valid_until = Null \/ now < ur.valid_until)

\* What RBACService.get_user_permissions has just returned contains the
\* permissions of every role the user holds now, and nothing else.
GrantedNow ==
    /\ \A r \in roles :
          HoldsRole(last.user_id, r) =>
              {permission_string(p) : p \in role_permissions[r]} \subseteq last.permissions
    /\ \A p \in last.permissions :
          \E r \in roles :
              /\ HoldsRole(last.user_id, r)
              /\ p \in {permission_string(q) : q \in role_permissions[r]}

\* C19: RBACService.get_user_permissions(A) contains the permission set of role
\* R while an assignment of R to A is valid (valid_from <= now, valid_until null
\* or now < valid_until); permissions whose every granting assignment has
\* expired are not returned; and a repeated query returns the same result.
C19_GrantAndExpiry ==
    [][ /\ last'.op = "get_user_permissions" => GrantedNow'
        /\ ( /\ last.op = "get_user_permissions"
             /\ last'.op = "get_user_permissions"
             /\ last'.user_id = last.user_id ) => last'.permissions = last.permissions
      ]_vars

\* The only assignment of the user has expired and its role's permissions are
\* not returned.
C19_Witness ==
    /\ last.op = "get_user_permissions"
    /\ last.permissions = {}
    /\ \E ur \in user_roles :
          /\ ur.user_id = last.user_id
          /\ ur.valid_until # Null /\ ur.valid_until <= now
          /\ role_permissions[ur.role_id] # {}

\* The class last registered under each name, as the registration just made
\* leaves it: the class given for that name, the one before for every other.
RegistrationKept(before, after) ==
    \A n \in RegistryNames :
        DictGet(after, n) = IF n = last'.name THEN last'.instance ELSE DictGet(before, n)

\* The getter just called on a registry: an instance of the class registered
\* under the name, or a ValueError that lists every registered name.
RoundTrip(registry) ==
    IF \E i \in 1..Len(registry) : registry[i].key = last.name
    THEN /\ ~last.outcome.raised
         /\ \E i \in 1..Len(registry) :
               registry[i].key = last.name /\ registry[i].value = last.instance
    ELSE /\ last.outcome.raised
         /\ last.outcome.status_code = 0
         /\ last.instance = None
         /\ \A i \in 1..Len(registry) : Contains(last.outcome.detail, registry[i].key)

\* C20: once a class is registered under a name, the getter of that registry
\* returns an instance of the class last registered under it, whatever else
\* was registered since; for a name never registered it raises ValueError
\* with a message that lists every registered name. This holds for policy
\* engines, scope providers and condition evaluators, and a getter leaves the
\* registries as they are.
C20_RegistryRoundTrip ==
    [][ /\ last'.op = "policy_engine" => RegistrationKept(_policy_engines, _policy_engines')
        /\ last'.op = "scope_provider" =>
              RegistrationKept(_scope_providers, _scope_providers')
        /\ last'.op = "condition" =>
              RegistrationKept(_condition_evaluators, _condition_evaluators')
        /\ last'.op \notin {"policy_engine"} => _policy_engines' = _policy_engines
        /\ last'.op \notin {"scope_provider"} => _scope_providers' = _scope_providers
        /\ last'.op \notin {"condition"} => _condition_evaluators' = _condition_evaluators
        /\ last'.op = "get_policy_engine" => RoundTrip(_policy_engines)'
        /\ last'.op = "get_scope_provider" => RoundTrip(_scope_providers)'
        /\ last'.op = "get_condition_evaluator" => RoundTrip(_condition_evaluators)'
      ]_vars

\* x is registered and y never was: get_policy_engine("y") has just raised
\* and its message names x.
C20_Witness ==
    /\ last.op = "get_policy_engine" /\ last.name = "y"
    /\ last.outcome.raised
    /\ DictKeys(_policy_engines) = <<"x">>
    /\ Contains(last.outcome.detail, "x")

\* C21: once clear_cache(actor) has returned after a committed mutation, the
\* cache never again holds a permission set read before the mutation: an entry
\* installed for the actor right after clear_cache, also by an evaluate that
\* was suspended on its lookup meanwhile, is the set the stored assignments
\* give now, so that an evaluate starting later uses a set that reflects the
\* mutation.
C21_CacheSafeAfterClear ==
    [][\A u \in UserIds :
          ( /\ last.op = "clear_cache"
            /\ last.user_id = u
            /\ _cache'[u].present )
          => _cache'[u].permissions = StoredPermissions(u, inflight[u].resource)
      ]_vars

\* The decision evaluate reaches for a non-admin when it finds no cache entry
\* and looks the assignments up.
ColdDecision(actor, action, resource) ==
    PermissionDecision(StoredPermissions(actor.id, resource), action)

\* C22: on a fixed store and within the TTL, evaluate(actor, action, resource)
\* returns the decision of a first call on a cold cache, whatever calls for the
\* same actor with other resources came before and warmed the cache.
C22_CacheTransparent ==
    (IsCall({"authorize"}) /\ ~last.actor.is_admin) =>
        last.base = ColdDecision(last.actor, last.action, last.resource).allowed

\* C23: evaluate and get_permissions answer a non-admin from the cache only
\* while now - cached_at < cache_ttl; on an entry cache_ttl seconds old or older
\* (or on none) they use the set the stored assignments give now, so a grant
\* that the store no longer backs is honoured only from an entry younger than
\* cache_ttl; and an entry they install carries the time of the lookup.
C23_StalenessBounded ==
    [][(last'.op \in {"evaluate", "get_permissions"} /\ ~last'.actor.is_admin
           /\ last'.actor.id # None) =>
          LET u == last'.actor.id
              fresh == StoredPermissions(u, last'.resource)
          IN /\ Fresh(_cache[u]) =>
                   /\ last'.permissions = _cache[u].permissions
                   /\ _cache' = _cache
             /\ ~Fresh(_cache[u]) => last'.permissions = fresh
             /\ (last'.op = "evaluate" /\ last'.allowed
                    /\ ~PermissionDecision(fresh, last'.action).allowed) =>
                   /\ _cache[u].present
                   /\ now < _cache[u].cached_at + cache_ttl
             /\ _cache'[u] # _cache[u] =>
                   _cache'[u] = [present |-> TRUE, permissions |-> fresh, cached_at |-> now]
      ]_vars

\* The entry that granted the action is cache_ttl seconds old, the assignment
\* behind it is gone, and evaluate has just denied the action.
C23_Witness ==
    /\ IsCall({"evaluate"})
    /\ ~last.allowed
    /\ _cache[last.actor.id].present
    /\ now - _cache[last.actor.id].cached_at = cache_ttl
    /\ last.action \in _cache[last.actor.id].permissions
    /\ user_roles = {}

\* The assignment is unscoped, or a resource is supplied whose
\* "<scope_type>_id" field equals the scope_id of the assignment.
Contributes(ur, resource) ==
    \/ ur.scope_type = None
    \/ resource.present /\ ScopeAttr(resource, ur.scope_type) = ur.scope_id

\* C24: the set a lookup resolves for a non-admin is made of the permissions of
\* the roles held through valid assignments that are unscoped or scoped to the
\* supplied resource; with no resource, a role held only through scoped
\* assignments gives nothing.
C24_ScopedNeedsResource ==
    [][(last'.op \in {"evaluate", "get_permissions"} /\ ~last'.actor.is_admin
           /\ last'.actor.id # None /\ ~Fresh(_cache[last'.actor.id])) =>
          last'.permissions =
              PermissionsOf({ur \in ValidUserRoles(last'.actor.id) :
                                Contributes(ur, last'.resource)})
      ]_vars

\* C25: when the policy engine denies, authorize invokes no evaluator and
\* returns the engine's deny; when it allows, the evaluators of the registered
\* conditions are invoked in the order of the conditions map, each only after
\* all before it passed, and the first that does not pass ends the call with a
\* deny carrying its reason, or "Condition '<name>' not met" if it gives none.
C25_FailFast ==
    IsCall({"authorize"}) =>
        LET ev == PolicyEngine_evaluate(last.actor, last.action, last.resource).decision
            reg == SelectSeq(Conditions, LAMBDA c : has_condition(c.name))
            r(i) == ConditionEvaluate(reg[i].name, reg[i].expected, last.actor,
                                      last.resource, last.context)
            n == Len(last.evaluated)
        IN IF ~last.base
           THEN /\ last.evaluated = <<>>
                /\ ~last.allowed
                /\ ~ev.allowed
                /\ last.reason = ev.reason
           ELSE /\ n <= Len(reg)
                /\ \A i \in 1..n : last.evaluated[i] = reg[i].name
                /\ \A i \in 1..(n - 1) : r(i).passed
                /\ IF last.allowed
                   THEN /\ n = Len(reg)
                        /\ n > 0 => r(n).passed
                        /\ last.reason = ev.reason
                   ELSE /\ n >= 1
                        /\ ~r(n).passed
                        /\ last.reason = IF r(n).reason # NoReason THEN r(n).reason
                                         ELSE <<"Condition '", reg[n].name, "' not met">>

\* The engine allows, status does not pass, and not_creator, which would not
\* pass either, is never invoked.
C25_Witness ==
    /\ IsCall({"authorize"})
    /\ last.base
    /\ Len(Conditions) = 2
    /\ last.evaluated = <<"status">>
    /\ ~last.allowed
    /\ last.reason = <<"Resource status must be">>
    /\ ~NotCreatorCondition_evaluate(Conditions[2].expected, last.actor,
                                     last.resource, last.context).passed

CatalogUnique ==
    \A p, q \in permissions :
        (p.resource = q.resource /\ p.action = q.action) => p = q

\* C27: under every interleaving of get_or_create_permission, create_role and
\* add_permission_to_role the catalog holds at most one Permission per
\* (resource, action); the permission that get_or_create_permission(s) returns
\* is in the catalog, is the row that was there for the pair of s if there was
\* one, and its permission_string is s if s has a colon and s + ":*" otherwise.
C27_CatalogUnique ==
    [][ /\ CatalogUnique'
        /\ (last'.op = "get_or_create_permission" /\ ~last'.outcome.raised) =>
              LET permission == last'.permission
                  perm == last'.perm
              IN /\ perm \in permissions'
                 /\ permission_string(perm) =
                       IF HasColon(permission) THEN permission
                       ELSE permission \o <<":", "*">>
                 /\ PermissionRows(permission) # {} =>
                       /\ perm \in PermissionRows(permission)
                       /\ permissions' = permissions
      ]_vars

\* Both sessions found no row for the pair of "posts" and "posts:*"; one has
\* inserted it and the flush of the other has been refused.
C27_Witness ==
    /\ last.op = "get_or_create_permission"
    /\ last.outcome = IntegrityError
    /\ last.permission = Str("posts")
    /\ \E row \in permissions : permission_string(row) = Perm("posts", "*")
    /\ Cardinality(permissions) = 1

\* C28: no two stored assignments share (user, role, scope_type, scope_id),
\* the unscoped case with both scope columns null included.
C28_AssignmentUnique ==
    \A a, b \in user_roles :
        ( /\ a.user_id = b.user_id /\ a.role_id = b.role_id
          /\ a.scope_type = b.scope_type /\ a.scope_id = b.scope_id ) => a = b

\* C29: is_valid of a stored assignment is true iff valid_from <= now and
\* valid_until is null or later than now, that is exactly when
\* RBACService.get_user_roles and the RBAC engine select the assignment, also
\* at the instant now == valid_until.
C29_IsValidAgrees ==
    IsCall({"is_valid"}) =>
        LET ur == last.user_role
        IN /\ last.result <=>
                 /\ ur.valid_from <= now
                 /\ (ur.valid_until = Null \/ ur.valid_until > now)
           /\ last.result <=> ur \in get_user_roles(ur.user_id, FALSE)
           /\ last.result <=> ur \in ValidUserRoles(ur.user_id)

\* The valid assignments of the user that the lookup counts for the resource.
Contributing(user_id, resource) ==
    {ur \in ValidUserRoles(user_id) : RoleApplies(ur, resource)}

\* C30: a lookup that finds no contributing assignment (none valid, or none
\* matching the scope of the resource) returns the empty set and leaves the
\* cache as it was; so after assign_role for an actor without an unexpired
\* entry, the next evaluate resolves the permissions of the new role, if the
\* assignment is valid and counts for the resource, and caches them.
C30_EmptyNotCached ==
    [][(last'.op \in {"evaluate", "get_permissions"} /\ ~last'.actor.is_admin
           /\ last'.actor.id # None /\ ~Fresh(_cache[last'.actor.id])) =>
          LET u == last'.actor.id
              found == Contributing(u, last'.resource)
          IN /\ found = {} =>
                   /\ last'.permissions = {}
                   /\ _cache' = _cache
             /\ ( /\ last.op = "assign_role" /\ last.result /\ last.user_id = u
                  /\ \E ur \in found : ur.role_id = last.role_id ) =>
                   /\ {permission_string(p) : p \in role_permissions[last.role_id]}
                          \subseteq last'.permissions
                   /\ _cache'[u] = [present |-> TRUE, permissions |-> last'.permissions,
                                    cached_at |-> now]
      ]_vars

\* The actor's only assignment is scoped to project X; evaluate on a resource
\* of project Y has returned the empty set and the cache has no entry.
C30_Witness ==
    /\ IsCall({"evaluate"})
    /\ ~last.allowed
    /\ last.permissions = {}
    /\ last.resource.present /\ last.resource.project_id = "Y"
    /\ \E ur \in ValidUserRoles(last.actor.id) :
          ur.scope_type = "project" /\ ur.scope_id = "X"
    /\ ~_cache[last.actor.id].present

====
